---- MODULE Spec2Model ----
(***************************************************************************)
(* Settings store and gallery resolver of the salon website.              *)
(*                                                                         *)
(* Encoding of JavaScript values:                                          *)
(*   - an object is a function whose domain is its set of own keys; a     *)
(*     partial document simply has a smaller domain;                      *)
(*   - a value whose run-time type the code tests (Array.isArray, typeof  *)
(*     x === "number") is a tagged record: JsArray(seq), JsNumber(n) or   *)
(*     NotArray / NotNumber for a value of any other type; NaN is the     *)
(*     number NaN and Undefined a property that is missing;               *)
(*   - the strings the gallery code builds or takes apart (folder,        *)
(*     extension, image URLs) are sequences of one-character strings;     *)
(*     all the other strings are opaque TLA+ strings;                     *)
(*   - Null is null in a string-typed field;                              *)
(*   - an optional document (T | null) is Some(d) or None.                *)
(***************************************************************************)
EXTENDS Integers, Sequences, FiniteSets, TLC

VARIABLES
    \* ---- SiteSettingsProvider (src/src/firebase.ts) ----
    settings,            \* useState settings: the canonical SiteSettings
    loading,             \* useState loading
    firestoreAvailable,  \* useState firestoreAvailable
    cache,               \* localStorage[STORAGE_KEY]
    pc,                  \* where init() is: "fetching", "pushing", "done"
    initLocal,           \* init's `local`, while its push is in flight
    subscribed,          \* the onSnapshot listener is registered and alive
    mounted,             \* the provider's effect has not been cleaned up
    \* ---- the remote document store (Firestore) ----
    remote,              \* settings/siteConfig: Some(doc) or None
    inbox,               \* snapshots (or a listener error) not yet delivered
    pending,             \* setDoc calls of save/update/reset still in flight
    \* ---- AdminSettingsPanel (src/unnamed/part_000) ----
    panelOpen,           \* the panel is mounted
    draft,               \* useState draft
    \* ---- what the UI would see of a failure ----
    raised,              \* an exception or a rejection nothing caught
    \* ---- history ----
    last,                \* the last operation and what it was given
    landed,              \* the write that set the canonical value last
    established,         \* some remote operation has succeeded so far
    \* ---- pure-function harnesses ----
    gIn,                 \* the settings handed to buildGalleryImageList
    gOut,                \* its result
    mIn,                 \* the partial document handed to mergeSettings
    mOut,                \* its result
    lIn,                 \* the cache entry loadFromLocalStorage finds
    lOut,                \* what it returned, and that object as it is now
    defaults,            \* the object DEFAULT_SITE_SETTINGS as it is now
    fIn,                 \* the settings and the entry handed to normalizeFeaturedUrl
    fOut,                \* its result
    nIn,                 \* the settings Gallery computes nailsAll from
    nOut,                \* nailsAll
    pIn,                 \* the promotions and the clock Specials computes items from
    pOut,                \* items
    \* ---- Firebase Authentication, AuthProvider, AppContent, AdminLogin ----
    authUser,            \* auth.currentUser: the provider's session
    isAuthenticated,     \* useState isAuthenticated
    authChecked,         \* useState authChecked
    currentPage,         \* useState currentPage
    me,                  \* where the start-up adminMe() is
    logins,              \* the login() calls in flight
    loggingOut,          \* logout() calls in flight
    error,               \* useState error of the mounted AdminLogin
    authLast,            \* the adminLogin / adminMe / logout call that returned last
    remembered,          \* a failed sign-in of before, and what it showed
    \* ---- Reviews and the reviews collection ----
    formData,            \* useState formData
    formError,           \* useState formError
    submitted,           \* useState submitted
    isSubmitting,        \* useState isSubmitting
    adding,              \* addDoc calls in flight: the data handed to addReview
    reviewDocs,          \* the documents of the reviews collection
    revLast,             \* what the last handleSubmit did
    \* ---- AdminSettingsPanel: the numbered range and its order ----
    rDraft,              \* useState draft
    rLast                \* the handler that ran last, and the draft before it

vars == <<settings, loading, firestoreAvailable, cache, pc, initLocal,
          subscribed, mounted, remote, inbox, pending, panelOpen, draft, raised,
          last, landed, established, gIn, gOut, mIn, mOut, lIn, lOut,
          defaults, fIn, fOut, nIn, nOut, pIn, pOut,
          authUser, isAuthenticated, authChecked, currentPage, me, logins,
          loggingOut, error, authLast, remembered, formData, formError,
          submitted, isSubmitting, adding, reviewDocs, revLast, rDraft, rLast>>

storeVars == <<settings, loading, firestoreAvailable, cache, pc, initLocal,
               subscribed, mounted, remote, inbox, pending, panelOpen, draft, raised,
               last, landed, established>>

galleryVars == <<gIn, gOut>>
mergeVars == <<mIn, mOut>>
loadVars == <<lIn, lOut, defaults>>
featuredVars == <<fIn, fOut>>
nailsVars == <<nIn, nOut>>
specialsVars == <<pIn, pOut>>
libraryVars == <<galleryVars, mergeVars, loadVars, featuredVars>>
authVars == <<authUser, isAuthenticated, authChecked, currentPage, me, logins,
              loggingOut, error, authLast, remembered>>
reviewVars == <<formData, formError, submitted, isSubmitting, adding, reviewDocs,
                revLast>>
reorderVars == <<rDraft, rLast>>
pageVars == <<nailsVars, specialsVars, authVars, reviewVars, reorderVars>>
notNails == <<storeVars, libraryVars, specialsVars, authVars, reviewVars, reorderVars>>
notSpecials == <<storeVars, libraryVars, nailsVars, authVars, reviewVars, reorderVars>>
notAuth == <<storeVars, libraryVars, nailsVars, specialsVars, reviewVars, reorderVars>>
notReviews == <<storeVars, libraryVars, nailsVars, specialsVars, authVars, reorderVars>>
notReorder == <<storeVars, libraryVars, nailsVars, specialsVars, authVars, reviewVars>>
harnessVars == <<libraryVars, pageVars>>

(***************************************************************************)
(* Bounds of the model.                                                    *)
(***************************************************************************)
MaxInbox == 1        \* undelivered snapshots
MaxPending == 1      \* writes in flight
MaxNum == 4          \* numbered.start, numbered.end and order entries: -1..MaxNum
MaxOrderLen == 3     \* length of numbered.order
MaxSupplied == 2     \* leaf fields a partial document supplies
MaxCustom == 3       \* length of customImages
MaxFeatured == 3     \* length of featuredNails.imageUrls
MaxRun == 13         \* current promotions stored in a row
MaxLogins == 1       \* login() calls in flight
MaxLogouts == 1      \* logout() calls in flight
MaxText == 501       \* characters of a review text
MaxAdds == 1         \* addDoc calls in flight
MaxReviews == 1      \* documents of the reviews collection
MaxEnd == 3          \* numbered.end of a draft that is reordered

(***************************************************************************)
(* JavaScript values.                                                      *)
(***************************************************************************)
None == [some |-> FALSE]
Some(d) == [some |-> TRUE, doc |-> d]

JsArray(seq) == [type |-> "array", items |-> seq]
NotArray == [type |-> "string", items |-> <<>>]
JsNumber(n) == [type |-> "number", n |-> n]
NotNumber == [type |-> "string", n |-> 0]
\* the number NaN, and a property that is missing (reads undefined)
NaN == [type |-> "number", nan |-> TRUE]
Undefined == [type |-> "undefined"]
Null == "<null>"

\* Array.isArray(v)
IsArray(v) == v.type = "array"
\* typeof v === "number"
IsNumber(v) == v.type = "number"

\* { ...a, ...b }: the keys of both, b's value where both have the key
Spread(a, b) ==
    [k \in (DOMAIN a) \cup (DOMAIN b) |-> IF k \in DOMAIN b THEN b[k] ELSE a[k]]

\* obj?.key ?? {}  (obj an object; a missing key reads undefined)
EmptyObject == <<>>
SectionOrEmpty(obj, key) ==
    IF key \in DOMAIN obj THEN obj[key] ELSE EmptyObject

(***************************************************************************)
(* Strings as sequences of characters.                                     *)
(***************************************************************************)
\* String(n) for an integer n: its decimal digits, "-" first when negative
DigitChar(d) ==
    CASE d = 0 -> "0" [] d = 1 -> "1" [] d = 2 -> "2" [] d = 3 -> "3"
      [] d = 4 -> "4" [] d = 5 -> "5" [] d = 6 -> "6" [] d = 7 -> "7"
      [] d = 8 -> "8" [] OTHER -> "9"

RECURSIVE NatToString(_)
NatToString(n) ==
    IF n < 10 THEN <<DigitChar(n)>>
    ELSE NatToString(n \div 10) \o <<DigitChar(n % 10)>>

NumberToString(n) ==
    IF n < 0 THEN <<"-">> \o NatToString(0 - n) ELSE NatToString(n)

\* str.replace(/^\./, ""): one leading dot removed
StripLeadingDot(str) ==
    IF Len(str) > 0 /\ Head(str) = "." THEN Tail(str) ELSE str

(***************************************************************************)
(* DEFAULT_SITE_SETTINGS                                                   *)
(***************************************************************************)
DEFAULT_SITE_SETTINGS ==
    [contact |->
        [addressLines |-> JsArray(<<"248 Ben Viljoen St",
                                    "Pretoria North, Pretoria, 0116",
                                    "South Africa">>),
         mapUrl |-> "https://www.google.com/maps/search/?api=1&query=248+Ben+Viljoen+St,+Pretoria+North,+Pretoria,+0116,+South+Africa",
         phoneDisplay |-> "+27 69 288 8445",
         phoneTel |-> "+27692888445",
         whatsappDigits |-> "27692888445",
         email |-> "info@berlybeauty.co.za",
         hours |-> "Mon - Sun: 7:00 AM - 7:00 PM"],
     socials |->
        [instagramUrl |-> "https://www.instagram.com/salonberlybeauty10?igsh=MW42ZmFjY295NTk1eQ==",
         facebookUrl |-> "https://www.facebook.com/share/1HRogBAxNy/"],
     media |->
        [heroVideoUrl |-> "/gallery/1.mp4",
         heroPosterUrl |-> "/gallery/1.jpeg",
         heroVideoFit |-> "cover",
         heroVideoPosition |-> "50% 15%"],
     promotions |->
        [enabled |-> TRUE,
         items |-> JsArray(<<>>)],
     gallery |->
        [assetVersion |-> JsNumber(1),
         mode |-> "numbered",
         initialCount |-> 11,
         pageSize |-> 12,
         tileFit |-> "cover",
         featuredNails |->
            [enabled |-> TRUE,
             title |-> "Nails Designs",
             imageUrls |-> JsArray(<<
                 <<"/", "g", "a", "l", "l", "e", "r", "y", "/", "n", "a", "i", "l", "s", "1", ".", "j", "p", "e", "g">>,
                 <<"/", "g", "a", "l", "l", "e", "r", "y", "/", "n", "a", "i", "l", "s", "2", ".", "j", "p", "e", "g">>,
                 <<"/", "g", "a", "l", "l", "e", "r", "y", "/", "n", "a", "i", "l", "s", "3", ".", "j", "p", "e", "g">>>>)],
         featuredVideo |->
            [enabled |-> FALSE,
             url |-> "/gallery/nails.mp4",
             posterUrl |-> "/gallery/nails.jpeg",
             title |-> "Nails"],
         numbered |->
            [folder |-> <<"/", "g", "a", "l", "l", "e", "r", "y">>,
             start |-> JsNumber(1),
             end |-> JsNumber(50),
             extension |-> <<"j", "p", "e", "g">>,
             order |-> JsArray(<<>>)],
         customImages |-> JsArray(<<>>)]]

\* JSON.parse(JSON.stringify(value)): the value rebuilt from its JSON text.
\* Every value the model hands to it is JSON data (no undefined, no NaN),
\* so the copy has the same keys and the same values as the original.
deepClone(value) == value

(***************************************************************************)
(* mergeSettings                                                           *)
(***************************************************************************)
\* mutant: a shallow replace, { ...DEFAULT_SITE_SETTINGS, ...partial }
mergeSettings_Shallow(partial) ==
    IF ~partial.some THEN deepClone(DEFAULT_SITE_SETTINGS)
    ELSE [k \in DOMAIN DEFAULT_SITE_SETTINGS |->
            IF k \in DOMAIN partial.doc THEN partial.doc[k]
            ELSE DEFAULT_SITE_SETTINGS[k]]

mergeSettings(partial) ==
    IF ~partial.some THEN deepClone(DEFAULT_SITE_SETTINGS)
    ELSE
    LET s == partial.doc
        D == DEFAULT_SITE_SETTINGS
        p == SectionOrEmpty(s, "promotions")
        g == SectionOrEmpty(s, "gallery")
        fn == SectionOrEmpty(g, "featuredNails")
        nb == SectionOrEmpty(g, "numbered")
    IN  [contact |-> Spread(D.contact, SectionOrEmpty(s, "contact")),
         socials |-> Spread(D.socials, SectionOrEmpty(s, "socials")),
         media |-> Spread(D.media, SectionOrEmpty(s, "media")),
         promotions |->
            Spread(Spread(D.promotions, p),
                   [items |-> IF "items" \in DOMAIN p /\ IsArray(p.items)
                              THEN p.items
                              ELSE D.promotions.items]),
         gallery |->
            Spread(Spread(D.gallery, g),
                [assetVersion |->
                    IF "assetVersion" \in DOMAIN g /\ IsNumber(g.assetVersion)
                    THEN g.assetVersion
                    ELSE D.gallery.assetVersion,
                 tileFit |->
                    IF "tileFit" \in DOMAIN g /\ g.tileFit # Null
                    THEN g.tileFit
                    ELSE D.gallery.tileFit,
                 featuredNails |->
                    Spread(Spread(D.gallery.featuredNails, fn),
                        [imageUrls |->
                            IF "imageUrls" \in DOMAIN fn /\ IsArray(fn.imageUrls)
                            THEN fn.imageUrls
                            ELSE D.gallery.featuredNails.imageUrls]),
                 featuredVideo |->
                    Spread(D.gallery.featuredVideo,
                           SectionOrEmpty(g, "featuredVideo")),
                 numbered |->
                    Spread(Spread(D.gallery.numbered, nb),
                        [order |->
                            IF "order" \in DOMAIN nb /\ IsArray(nb.order)
                            THEN nb.order
                            ELSE D.gallery.numbered.order]),
                 customImages |->
                    IF "customImages" \in DOMAIN g /\ IsArray(g.customImages)
                    THEN g.customImages
                    ELSE D.gallery.customImages])]

(***************************************************************************)
(* buildGalleryImageList                                                   *)
(***************************************************************************)
\* mutant: the filter forgotten
FilterSeq_KeepAll(seq, keep) == seq

\* array.filter(keep), in order
RECURSIVE FilterSeq(_, _)
FilterSeq(seq, keep) ==
    IF seq = <<>> THEN <<>>
    ELSE (IF Head(seq) \in keep THEN <<Head(seq)>> ELSE <<>>)
         \o FilterSeq(Tail(seq), keep)

\* mutant: the Set forgotten, repeated entries kept
Unique_NoDedup(seq) == seq

\* Array.from(new Set(seq)): first occurrences, in insertion order
RECURSIVE Unique(_)
Unique(seq) ==
    IF seq = <<>> THEN <<>>
    ELSE LET init == Unique(SubSeq(seq, 1, Len(seq) - 1))
             x == seq[Len(seq)]
         IN  IF \E i \in 1..Len(init) : init[i] = x THEN init
             ELSE Append(init, x)

Max(a, b) == IF a >= b THEN a ELSE b
Min(a, b) == IF a <= b THEN a ELSE b

\* Math.floor(x || fallback) for x a number, NaN or undefined: undefined,
\* NaN and 0 are falsy; the numbers of this model are integers
FloorOr(x, fallback) ==
    IF x.type = "number" /\ "n" \in DOMAIN x /\ x.n # 0 THEN x.n ELSE fallback

\* Math.max(1, Math.floor(start || 1))
SafeStart(start) == Max(1, FloorOr(start, 1))
\* mutant: the end taken as it is given when it is a number
SafeEnd_Unclamped(start, end) == FloorOr(end, SafeStart(start))
\* Math.max(safeStart, Math.floor(end || safeStart))
SafeEnd(start, end) ==
    Max(SafeStart(start), FloorOr(end, SafeStart(start)))

\* mutant: the range counted down from safeEnd
Range_Descending(lo, hi) == [i \in 1..(hi - lo + 1) |-> hi - i + 1]

\* Array.from({ length: safeEnd - safeStart + 1 }, (_, i) => safeStart + i)
Range(lo, hi) == [i \in 1..(hi - lo + 1) |-> lo + i - 1]

\* the local orderedNumbers of buildGalleryImageList
OrderedNumbers(s) ==
    LET numbered == s.gallery.numbered
        safeStart == SafeStart(numbered.start)
        safeEnd == SafeEnd(numbered.start, numbered.end)
        range == Range(safeStart, safeEnd)
        manual == IsArray(numbered.order) /\ Len(numbered.order.items) > 0
        baseOrdered ==
            IF manual
            THEN Unique(FilterSeq(numbered.order.items, safeStart..safeEnd))
            ELSE <<>>
        baseSet == {baseOrdered[i] : i \in 1..Len(baseOrdered)}
    IN  IF manual
        THEN baseOrdered \o FilterSeq(range, (safeStart..safeEnd) \ baseSet)
        ELSE range

\* mutant: the version parameter forgotten
NumberedUrl_NoVersion(folder, n, ext, v) ==
    folder \o <<"/">> \o NumberToString(n) \o <<".">> \o ext

\* `${folder}/${n}.${ext}?v=${v}`
NumberedUrl(folder, n, ext, v) ==
    folder \o <<"/">> \o NumberToString(n) \o <<".">> \o ext
           \o <<"?", "v", "=">> \o NumberToString(v)

buildGalleryImageList(s) ==
    IF s.gallery.mode = "custom"
    THEN LET imgs == s.gallery.customImages.items
         IN  FilterSeq(imgs, {imgs[i] : i \in 1..Len(imgs)} \ {<<>>})
    ELSE
    LET numbered == s.gallery.numbered
        ext == StripLeadingDot(IF numbered.extension = <<>>
                               THEN <<"j", "p", "e", "g">>
                               ELSE numbered.extension)
        v == IF IsNumber(s.gallery.assetVersion)
             THEN s.gallery.assetVersion.n
             ELSE 1
        orderedNumbers == OrderedNumbers(s)
    IN  [i \in 1..Len(orderedNumbers) |->
            NumberedUrl(numbered.folder, orderedNumbers[i], ext, v)]

(***************************************************************************)
(* The variables of the parts a specification leaves alone.                *)
(***************************************************************************)
NotRun == [done |-> FALSE]
Ran(v) == [done |-> TRUE, value |-> v]

GalleryIdle == gIn = DEFAULT_SITE_SETTINGS /\ gOut = NotRun
MergeIdle == mIn = None /\ mOut = NotRun

(***************************************************************************)
(* SpecGallery: buildGalleryImageList applied to numbered-mode settings.   *)
(***************************************************************************)
\* all sequences over S of length at most n
SeqsUpTo(S, n) == UNION {[1..k -> S] : k \in 0..n}

\* every range with every manual order
NumberedInputs ==
    {[start |-> JsNumber(a), end |-> JsNumber(b), order |-> JsArray(o)] :
        a \in (0 - 1)..MaxNum, b \in (0 - 1)..MaxNum,
        o \in SeqsUpTo((0 - 1)..(MaxNum + 1), MaxOrderLen)}

\* what the Start and End fields may hold: nothing, NaN, or a number
BoundValues == {Undefined, NaN} \cup {JsNumber(n) : n \in (0 - 2)..MaxNum}

\* every pair of bounds, with no manual order and with order [3, 1]
MalformedInputs ==
    {[start |-> a, end |-> b, order |-> JsArray(o)] :
        a \in BoundValues, b \in BoundValues, o \in {<<>>, <<3, 1>>}}

\* the default settings with the numbered range and order replaced
WithNumbered(nb) ==
    [DEFAULT_SITE_SETTINGS EXCEPT
        !.gallery.numbered.start = nb.start,
        !.gallery.numbered.end = nb.end,
        !.gallery.numbered.order = nb.order]

\* the Folder and Ext fields of the panel are free text (Ext loses its
\* first dot as it is typed); a document of another writer may hold any string
Folders ==
    {<<"/", "g", "a", "l", "l", "e", "r", "y">>, <<"/", "i", "m", "g">>,
     <<"i", "m", "g">>, <<>>}
Extensions ==
    {<<"j", "p", "e", "g">>, <<"p", "n", "g">>, <<".", "p", "n", "g">>, <<>>}
\* assetVersion is a number in every settings value the store produces
Versions == {JsNumber(1), JsNumber(12)}

\* range 1..3 under every folder, extension and version, with no manual
\* order and with order [3, 1]
FormatInputs ==
    {[DEFAULT_SITE_SETTINGS EXCEPT
        !.gallery.assetVersion = v,
        !.gallery.numbered.folder = f,
        !.gallery.numbered.extension = e,
        !.gallery.numbered.start = JsNumber(1),
        !.gallery.numbered.end = JsNumber(3),
        !.gallery.numbered.order = JsArray(o)] :
        f \in Folders, e \in Extensions, v \in Versions,
        o \in {<<>>, <<3, 1>>}}

\* the entries of customImages: an empty string, an internal path, an
\* absolute URL that carries a version parameter of its own
CustomUrls ==
    {<<>>, <<"/", "a", ".", "p", "n", "g">>,
     <<"h", "t", "t", "p", "s", ":", "/", "/", "x", "/", "b", "?", "v", "=", "3">>}

\* custom mode: every list of entries, under two versions and two ranges
CustomInputs ==
    {[DEFAULT_SITE_SETTINGS EXCEPT
        !.gallery.mode = "custom",
        !.gallery.customImages = JsArray(c),
        !.gallery.assetVersion = v,
        !.gallery.numbered.start = nb[1],
        !.gallery.numbered.end = nb[2]] :
        c \in SeqsUpTo(CustomUrls, MaxCustom), v \in Versions,
        nb \in {<<JsNumber(1), JsNumber(50)>>, <<JsNumber(2), JsNumber(4)>>}}

GalleryInit ==
    /\ gIn \in {WithNumbered(nb) : nb \in NumberedInputs \cup MalformedInputs}
               \cup FormatInputs \cup CustomInputs
    /\ gOut = NotRun

ResolveGallery ==
    /\ ~gOut.done
    /\ gOut' = Ran(buildGalleryImageList(gIn))
    /\ UNCHANGED <<gIn, mergeVars, loadVars, featuredVars, pageVars>>
    /\ UNCHANGED storeVars

(***************************************************************************)
(* SpecMerge: mergeSettings applied to partial documents.                  *)
(***************************************************************************)
\* a document every field of which differs from the default
Incoming ==
    [contact |->
        [addressLines |-> JsArray(<<"1 Main Rd">>),
         mapUrl |-> "https://maps.example/1",
         phoneDisplay |-> "+27 11 000 0000",
         phoneTel |-> "+27110000000",
         whatsappDigits |-> "27110000000",
         email |-> "a@b.com",
         hours |-> "Mon - Fri: 9:00 AM - 5:00 PM"],
     socials |->
        [instagramUrl |-> "https://www.instagram.com/x",
         facebookUrl |-> "https://www.facebook.com/x"],
     media |->
        [heroVideoUrl |-> "/gallery/2.mp4",
         heroPosterUrl |-> "/gallery/2.jpeg",
         heroVideoFit |-> "contain",
         heroVideoPosition |-> "50% 50%"],
     promotions |->
        [enabled |-> FALSE,
         items |-> JsArray(<<[id |-> "p1", title |-> "Spring", description |-> "",
                              badge |-> "New", ctaText |-> "Book", imageUrl |-> "",
                              validUntil |-> ""]>>)],
     gallery |->
        [assetVersion |-> JsNumber(5),
         mode |-> "custom",
         initialCount |-> 6,
         pageSize |-> 8,
         tileFit |-> "contain",
         featuredNails |->
            [enabled |-> FALSE,
             title |-> "Featured",
             imageUrls |-> JsArray(<<<<"1", "2">>>>)],
         featuredVideo |->
            [enabled |-> TRUE,
             url |-> "/gallery/v.mp4",
             posterUrl |-> "/gallery/v.jpeg",
             title |-> "Video"],
         numbered |->
            [folder |-> <<"/", "i", "m", "g">>,
             start |-> JsNumber(2),
             end |-> JsNumber(4),
             extension |-> <<"p", "n", "g">>,
             order |-> JsArray(<<3, 2>>)],
         customImages |-> JsArray(<<<<"/", "a", ".", "p", "n", "g">>>>)]]

\* the nested objects of a SiteSettings, and its leaf fields, as key paths
ObjectPaths ==
    {<<"contact">>, <<"socials">>, <<"media">>, <<"promotions">>, <<"gallery">>,
     <<"gallery", "featuredNails">>, <<"gallery", "featuredVideo">>,
     <<"gallery", "numbered">>}

RECURSIVE Get(_, _)
Get(obj, path) ==
    IF path = <<>> THEN obj ELSE Get(obj[Head(path)], Tail(path))

RECURSIVE HasPath(_, _)
HasPath(obj, path) ==
    \/ path = <<>>
    \/ /\ Head(path) \in DOMAIN obj
       /\ HasPath(obj[Head(path)], Tail(path))

IsPrefix(p, q) == Len(p) <= Len(q) /\ SubSeq(q, 1, Len(p)) = p

RECURSIVE LeavesUnder(_)
LeavesUnder(prefix) ==
    UNION {IF (prefix \o <<k>>) \in ObjectPaths
           THEN LeavesUnder(prefix \o <<k>>)
           ELSE {prefix \o <<k>>} :
           k \in DOMAIN Get(DEFAULT_SITE_SETTINGS, prefix)}

Leaves == LeavesUnder(<<>>)

\* the fields whose type SiteSettings declares as an array, the number
\* assetVersion and the enumeration tileFit
ArrayLeaves ==
    {<<"contact", "addressLines">>, <<"promotions", "items">>,
     <<"gallery", "featuredNails", "imageUrls">>,
     <<"gallery", "numbered", "order">>, <<"gallery", "customImages">>}

ShapedLeaves ==
    ArrayLeaves \cup {<<"gallery", "assetVersion">>, <<"gallery", "tileFit">>}

\* a value of the wrong type for the field
IllShaped(path) ==
    IF path = <<"gallery", "assetVersion">> THEN NotNumber
    ELSE IF path = <<"gallery", "tileFit">> THEN Null
    ELSE NotArray

IsWellShaped(path, v) ==
    IF path \in ArrayLeaves THEN IsArray(v)
    ELSE IF path = <<"gallery", "assetVersion">> THEN IsNumber(v)
    ELSE IF path = <<"gallery", "tileFit">> THEN v # Null
    ELSE TRUE

\* the document that supplies the leaves P with Incoming's values, those in
\* B with a value of the wrong type
RECURSIVE PartialObject(_, _, _)
PartialObject(prefix, P, B) ==
    LET keys == {k \in DOMAIN Get(DEFAULT_SITE_SETTINGS, prefix) :
                    \E q \in P : IsPrefix(prefix \o <<k>>, q)}
    IN  [k \in keys |->
            LET path == prefix \o <<k>>
            IN  IF path \in ObjectPaths THEN PartialObject(path, P, B)
                ELSE IF path \in B THEN IllShaped(path)
                ELSE Get(Incoming, path)]

RECURSIVE SubsetsUpTo(_, _)
SubsetsUpTo(S, n) ==
    IF n = 0 THEN {{}}
    ELSE LET smaller == SubsetsUpTo(S, n - 1)
         IN  smaller \cup {P \cup {x} : P \in smaller, x \in S}

PartialDocs ==
    UNION {{PartialObject(<<>>, P, B) : B \in SUBSET (P \cap ShapedLeaves)} :
           P \in SubsetsUpTo(Leaves, MaxSupplied)}

MergeInit ==
    /\ mIn \in {Some(d) : d \in PartialDocs}
    /\ mOut = NotRun

RunMerge ==
    /\ ~mOut.done
    /\ mOut' = Ran(mergeSettings(mIn))
    /\ UNCHANGED <<mIn, galleryVars, loadVars, featuredVars, pageVars>>
    /\ UNCHANGED storeVars

(***************************************************************************)
(* The local cache (localStorage) and the remote document (Firestore).     *)
(***************************************************************************)
\* localStorage.getItem(STORAGE_KEY): no entry, text that is not JSON, or
\* the JSON text of a value
NoItem == [kind |-> "absent"]
Garbage == [kind |-> "garbage"]
\* JSON.stringify(value) / JSON.parse(raw) for a raw that parses
JsonStringify(value) == [kind |-> "json", value |-> value]
JsonParse(raw) == raw.value

\* an entry that is the empty string, and the JSON text `null`
EmptyItem == [kind |-> "empty"]
JsonNull == [kind |-> "null"]

\* `if (!raw)` takes a missing entry and the empty string; JSON.parse throws
\* on text that is not JSON and the catch returns the defaults; the JSON
\* text `null` parses to null, which mergeSettings takes as no document
loadFromLocalStorage(raw) ==
    IF raw.kind \in {"absent", "empty"} THEN deepClone(DEFAULT_SITE_SETTINGS)
    ELSE IF raw.kind = "garbage" THEN deepClone(DEFAULT_SITE_SETTINGS)
    ELSE IF raw.kind = "null" THEN mergeSettings(None)
    ELSE mergeSettings(Some(JsonParse(raw)))

(***************************************************************************)
(* Object identity.  A value of this model is the content of an object;    *)
(* which objects of a result ARE objects of DEFAULT_SITE_SETTINGS (the     *)
(* same reference, so that a change made through one shows in the other)   *)
(* is the set of their key paths.                                          *)
(***************************************************************************)
\* mutant: the value returned as it is, not rebuilt
deepCloneShared_SameObject(value) == {<<>>} \cup ObjectPaths \cup ArrayLeaves

\* JSON.parse(JSON.stringify(value)) builds every object and array anew
deepCloneShared(value) == {}

\* mergeSettings builds every object with an object literal; an array is
\* the incoming one when the conditional (or, for contact, the spread)
\* takes it, and the array of DEFAULT_SITE_SETTINGS itself otherwise
mergeSettingsShared(partial) ==
    IF ~partial.some THEN deepCloneShared(DEFAULT_SITE_SETTINGS)
    ELSE {p \in ArrayLeaves :
            IF p = <<"contact", "addressLines">>
            THEN ~HasPath(partial.doc, p)
            ELSE ~(HasPath(partial.doc, p) /\ IsArray(Get(partial.doc, p)))}

loadFromLocalStorageShared(raw) ==
    IF raw.kind \in {"absent", "empty"} THEN deepCloneShared(DEFAULT_SITE_SETTINGS)
    ELSE IF raw.kind = "garbage" THEN deepCloneShared(DEFAULT_SITE_SETTINGS)
    ELSE IF raw.kind = "null" THEN mergeSettingsShared(None)
    ELSE mergeSettingsShared(Some(JsonParse(raw)))

\* mutant: the entry left as it was
saveToLocalStorage_Keep(s) == cache

\* the new localStorage entry
saveToLocalStorage(s) == JsonStringify(s)

\* setDoc(ref, data, { merge: true }): data's fields written over the
\* stored document's, nested maps merged key by key
RECURSIVE MergeFields(_, _, _)
MergeFields(old, data, prefix) ==
    [k \in (DOMAIN old) \cup (DOMAIN data) |->
        IF k \notin DOMAIN data THEN old[k]
        ELSE IF k \in DOMAIN old /\ (prefix \o <<k>>) \in ObjectPaths
        THEN MergeFields(old[k], data[k], prefix \o <<k>>)
        ELSE data[k]]

setDocMerge(stored, data) ==
    IF stored.some THEN Some(MergeFields(stored.doc, data, <<>>))
    ELSE Some(data)

\* fetchSiteSettings: snap.data() when getDoc succeeds and the document
\* exists, null when it does not exist, null when getDoc fails (caught)
fetchSiteSettings(stored, getDocOk) ==
    IF getDocOk /\ stored.some THEN stored ELSE None

\* saveSiteSettingsToFirestore: true when setDoc succeeds, false when it
\* fails (caught); the promise never rejects
saveSiteSettingsToFirestore(setDocOk) ==
    IF setDocOk THEN "true" ELSE "false"

\* what onSnapshot delivers to the callback of subscribeSiteSettings
Snapshot(stored) == [kind |-> "snapshot", data |-> stored]
ListenerFailure == [kind |-> "error", data |-> None]
\* mutant: a missing document or a listener error delivered as an empty
\* document instead of null
subscribeSiteSettings_EmptyDoc(event) ==
    IF event.kind = "snapshot" /\ event.data.some THEN event.data
    ELSE Some(EmptyObject)

subscribeSiteSettings(event) ==
    IF event.kind = "snapshot" /\ event.data.some THEN event.data ELSE None

(***************************************************************************)
(* SiteSettingsProvider                                                    *)
(***************************************************************************)
\* the document the remote store may hold at start-up, and the document
\* another writer (another admin session, the console) stores later
RemoteOnlyEmail == [contact |-> [email |-> "a@b.com"]]
RemoteGallery ==
    [gallery |-> [assetVersion |-> JsNumber(5),
                  numbered |-> [start |-> JsNumber(2), end |-> JsNumber(4),
                                order |-> JsArray(<<3, 2>>)]],
     promotions |-> [enabled |-> FALSE]]

\* a cache entry written by an earlier version of the site
OldCacheDoc == [contact |-> [hours |-> "Mon - Fri: 9:00 AM - 5:00 PM"]]
InitialCaches == {NoItem, Garbage, JsonStringify(OldCacheDoc)}

\* the history record of a step
Record(op, data, changed) == [op |-> op, data |-> data, changed |-> changed]

\* the history record of the write that set the canonical value
Landed(source, data) == [source |-> source, data |-> data]

\* mutant: the pushed document spread over the defaults, section by section
CallbackSettings_Shallow(prev, data) == Spread(DEFAULT_SITE_SETTINGS, data.doc)

\* mutant: the pushed document merged field by field onto the current value
CallbackSettings_OntoCurrent(prev, data) ==
    mergeSettings(Some(MergeFields(prev, data.doc, <<>>)))

\* the subscription callback of init: the new canonical value for data
CallbackSettings(prev, data) == mergeSettings(data)

\* mutant: the fetched document overlaid on what the cache gave
FetchedSettings_OntoLocal(prev, fetched) ==
    mergeSettings(Some(MergeFields(prev, fetched.doc, <<>>)))

\* init, `if (remote)`: the new canonical value for the fetched document
FetchedSettings(prev, fetched) == mergeSettings(fetched)

\* mutant: an effect that copies every new canonical value into the draft
DraftOnSettingsChange_Sync(d, s) == s

\* the panel's draft when the canonical value changes under it: draft is
\* useState(() => settings), read from settings at mount only
DraftOnSettingsChange(d, s) == d

\* mutant: the cache written, the state left as it was
SetSettingsNext_Stale(prev, next) == prev

\* setSettings(next): the new canonical value
SetSettingsNext(prev, next) == next

\* `await saveSiteSettingsToFirestore(...)` inside init's inner try: the
\* statement after it, setFirestoreAvailable(true), runs unless the await
\* throws
AvailableAfterInitPush(result, before) ==
    IF result = "throws" THEN before ELSE TRUE

\* a rejected promise reaches the UI unless a catch handles it
Uncaught(result, hasCatch) == result = "throws" /\ ~hasCatch

\* mutant: the write sent whatever the connectivity flag says
PushIfAvailable_Always(available, next) == Append(pending, deepClone(next))

\* the writes setSettings / updateSettings / resetSettings put in flight
PushIfAvailable(available, next) ==
    IF available THEN Append(pending, deepClone(next)) ELSE pending

CanPush == firestoreAvailable => Len(pending) < MaxPending

StoreInit ==
    /\ cache \in InitialCaches
    /\ settings = loadFromLocalStorage(cache)
    /\ loading = TRUE
    /\ firestoreAvailable = FALSE
    /\ pc = "fetching"
    /\ initLocal = None
    /\ subscribed = FALSE
    /\ mounted = TRUE
    /\ remote \in {None, Some(RemoteOnlyEmail)}
    /\ inbox = <<>>
    /\ pending = <<>>
    /\ panelOpen = FALSE
    /\ draft = settings
    /\ raised = FALSE
    /\ last = [op |-> "mount", data |-> None, changed |-> FALSE]
    /\ landed = Landed("cache", None)
    /\ established = FALSE

StoreIdle ==
    /\ cache = NoItem
    /\ settings = DEFAULT_SITE_SETTINGS
    /\ loading = TRUE
    /\ firestoreAvailable = FALSE
    /\ pc = "fetching"
    /\ initLocal = None
    /\ subscribed = FALSE
    /\ mounted = TRUE
    /\ remote = None
    /\ inbox = <<>>
    /\ pending = <<>>
    /\ panelOpen = FALSE
    /\ draft = DEFAULT_SITE_SETTINGS
    /\ raised = FALSE
    /\ last = [op |-> "mount", data |-> None, changed |-> FALSE]
    /\ landed = Landed("cache", None)
    /\ established = FALSE

\* init(): fetchSiteSettings() returned a document
FetchReturnsDoc ==
    /\ pc = "fetching"
    /\ LET r == fetchSiteSettings(remote, TRUE)
           merged == FetchedSettings(settings, r)
       IN  /\ r.some
           /\ settings' = merged
           /\ draft' = DraftOnSettingsChange(draft, merged)
           /\ cache' = saveToLocalStorage(merged)
           /\ firestoreAvailable' = TRUE
           /\ last' = Record("fetchDoc", r, merged # settings)
           /\ landed' = Landed("remote", r)
    \* subscribeSiteSettings(...): the listener's first snapshot
    /\ subscribed' = TRUE
    /\ inbox' = Append(inbox, Snapshot(remote))
    /\ loading' = FALSE
    /\ pc' = "done"
    /\ established' = TRUE
    /\ UNCHANGED <<initLocal, remote, pending, panelOpen, raised>>
    /\ UNCHANGED <<mounted, harnessVars>>

\* init(): fetchSiteSettings() returned null (no document, or getDoc
\* failed); the local document is pushed
FetchReturnsNull ==
    /\ pc = "fetching"
    /\ \E getDocOk \in BOOLEAN :
        /\ ~fetchSiteSettings(remote, getDocOk).some
        /\ last' = Record(IF getDocOk THEN "fetchAbsent" ELSE "fetchFailed",
                          None, FALSE)
    /\ initLocal' = Some(loadFromLocalStorage(cache))
    /\ pc' = "pushing"
    /\ UNCHANGED <<landed, settings, loading, firestoreAvailable, cache, subscribed,
                   remote, inbox, pending, panelOpen, draft, raised,
                   established>>
    /\ UNCHANGED <<mounted, harnessVars>>

\* init(): the push of the local document resolved; then the subscription
InitPushResolves ==
    /\ pc = "pushing"
    /\ \E setDocOk \in BOOLEAN :
        LET result == saveSiteSettingsToFirestore(setDocOk)
            stored == IF setDocOk
                      THEN setDocMerge(remote, deepClone(initLocal.doc))
                      ELSE remote
        IN  /\ remote' = stored
            /\ firestoreAvailable' =
                   AvailableAfterInitPush(result, firestoreAvailable)
            /\ raised' = (raised \/ Uncaught(result, TRUE))
            /\ established' = (established \/ setDocOk)
            /\ inbox' = Append(inbox, Snapshot(stored))
            /\ last' = Record(IF setDocOk THEN "initPushOk" ELSE "initPushFailed",
                              None, FALSE)
    /\ subscribed' = TRUE
    /\ loading' = FALSE
    /\ pc' = "done"
    /\ initLocal' = None
    /\ UNCHANGED <<landed, settings, cache, pending, panelOpen, draft>>
    /\ UNCHANGED <<mounted, harnessVars>>

\* the onSnapshot listener delivers its next event to the callback
Notify ==
    /\ inbox # <<>>
    /\ LET event == Head(inbox)
           data == subscribeSiteSettings(event)
           merged == CallbackSettings(settings, data)
           op == IF event.kind = "error" THEN "notifyError"
                 ELSE IF event.data.some THEN "notify" ELSE "notifyNull"
       IN  IF data.some
           THEN /\ settings' = merged
                /\ draft' = DraftOnSettingsChange(draft, merged)
                /\ cache' = saveToLocalStorage(merged)
                /\ firestoreAvailable' = TRUE
                /\ established' = TRUE
                /\ last' = Record(op, data, merged # settings)
                /\ landed' = Landed("remote", data)
           ELSE /\ UNCHANGED <<settings, cache, firestoreAvailable, established,
                               landed, draft>>
                /\ last' = Record(op, None, FALSE)
    /\ inbox' = Tail(inbox)
    /\ UNCHANGED <<loading, pc, initLocal, subscribed, remote, pending,
                   panelOpen, raised>>
    /\ UNCHANGED <<mounted, harnessVars>>

\* the listener fails: its error handler will call callback(null), and the
\* listener delivers nothing after that
ListenerError ==
    /\ subscribed
    /\ Len(inbox) < MaxInbox
    /\ inbox' = Append(inbox, ListenerFailure)
    /\ subscribed' = FALSE
    /\ last' = Record("listenerError", None, FALSE)
    /\ UNCHANGED <<landed, settings, loading, firestoreAvailable, cache, pc, initLocal,
                   remote, pending, panelOpen, draft, raised, established>>
    /\ UNCHANGED <<mounted, harnessVars>>

\* another writer replaces the remote document
RemoteWrite ==
    /\ remote # Some(RemoteGallery)
    /\ remote' = Some(RemoteGallery)
    /\ last' = Record("remoteWrite", None, FALSE)
    /\ IF subscribed
       THEN /\ Len(inbox) < MaxInbox
            /\ inbox' = Append(inbox, Snapshot(remote'))
       ELSE inbox' = inbox
    /\ UNCHANGED <<landed, settings, loading, firestoreAvailable, cache, pc, initLocal,
                   subscribed, pending, panelOpen, draft, raised, established>>
    /\ UNCHANGED <<mounted, harnessVars>>

\* a write of setSettings / updateSettings / resetSettings resolves
PushResolves ==
    /\ pending # <<>>
    /\ \E setDocOk \in BOOLEAN :
        LET result == saveSiteSettingsToFirestore(setDocOk)
            stored == IF setDocOk THEN setDocMerge(remote, Head(pending))
                      ELSE remote
        IN  /\ remote' = stored
            /\ raised' = (raised \/ Uncaught(result, TRUE))
            /\ established' = (established \/ setDocOk)
            /\ IF subscribed /\ stored # remote
               THEN /\ Len(inbox) < MaxInbox
                    /\ inbox' = Append(inbox, Snapshot(stored))
               ELSE inbox' = inbox
            /\ last' = Record(IF setDocOk THEN "pushOk" ELSE "pushFailed",
                              None, FALSE)
    /\ pending' = Tail(pending)
    /\ UNCHANGED <<landed, settings, loading, firestoreAvailable, cache, pc, initLocal,
                   subscribed, panelOpen, draft>>
    /\ UNCHANGED <<mounted, harnessVars>>

(***************************************************************************)
(* AdminSettingsPanel                                                      *)
(***************************************************************************)
\* what the admin types into the Email field
TypedEmail == "owner@salon.example"

\* the Email input's onChange
EditedEmail(p, value) == [p EXCEPT !.contact.email = value]

\* isDirty: JSON.stringify(draft) !== JSON.stringify(settings)
isDirty == draft # settings

\* the panel mounts: useState(() => settings)
OpenPanel ==
    /\ ~panelOpen
    /\ panelOpen' = TRUE
    /\ draft' = settings
    /\ last' = Record("openPanel", None, FALSE)
    /\ UNCHANGED <<landed, settings, loading, firestoreAvailable, cache, pc, initLocal,
                   subscribed, remote, inbox, pending, raised, established>>
    /\ UNCHANGED <<mounted, harnessVars>>

\* the admin edits a field of the draft
EditDraft ==
    /\ panelOpen
    /\ draft.contact.email # TypedEmail
    /\ draft' = EditedEmail(draft, TypedEmail)
    /\ last' = Record("edit", None, FALSE)
    /\ UNCHANGED <<landed, settings, loading, firestoreAvailable, cache, pc, initLocal,
                   subscribed, remote, inbox, pending, panelOpen, raised,
                   established>>
    /\ UNCHANGED <<mounted, harnessVars>>

\* the Discard button
Discard ==
    /\ panelOpen
    /\ isDirty
    /\ draft' = settings
    /\ last' = Record("discard", None, FALSE)
    /\ UNCHANGED <<landed, settings, loading, firestoreAvailable, cache, pc, initLocal,
                   subscribed, remote, inbox, pending, panelOpen, raised,
                   established>>
    /\ UNCHANGED <<mounted, harnessVars>>

\* the Save Changes button: onSave, which is setSettings(draft)
Save ==
    /\ panelOpen
    /\ isDirty
    /\ CanPush
    /\ LET next == draft
       IN  /\ settings' = SetSettingsNext(settings, next)
           /\ cache' = saveToLocalStorage(next)
           /\ pending' = PushIfAvailable(firestoreAvailable, next)
           /\ last' = Record("save", Some(next), next # settings)
           /\ landed' = Landed("local", Some(next))
    /\ UNCHANGED <<loading, firestoreAvailable, pc, initLocal, subscribed,
                   remote, inbox, panelOpen, draft, raised, established>>
    /\ UNCHANGED <<mounted, harnessVars>>

\* the Reset Defaults button, confirmed: resetSettings() and the draft
ResetDefaults ==
    /\ panelOpen
    /\ CanPush
    /\ LET def == deepClone(DEFAULT_SITE_SETTINGS)
       IN  /\ settings' = def
           /\ cache' = saveToLocalStorage(def)
           /\ pending' = PushIfAvailable(firestoreAvailable, def)
           /\ last' = Record("reset", Some(def), def # settings)
           /\ landed' = Landed("local", Some(def))
    /\ draft' = DEFAULT_SITE_SETTINGS
    /\ UNCHANGED <<loading, firestoreAvailable, pc, initLocal, subscribed,
                   remote, inbox, panelOpen, raised, established>>
    /\ UNCHANGED <<mounted, harnessVars>>

(***************************************************************************)
(* SiteSettingsProvider: updateSettings, and the effect's cleanup          *)
(***************************************************************************)
\* the value a caller of setSettings passes, and what a caller's updater
\* returns for prev: the current value with one field changed
PassedNext(prev) == EditedEmail(prev, TypedEmail)
Updater(prev) == EditedEmail(prev, TypedEmail)

\* setSettings(next)
SetSettings ==
    /\ CanPush
    /\ LET next == PassedNext(settings)
       IN  /\ settings' = SetSettingsNext(settings, next)
           /\ cache' = saveToLocalStorage(next)
           /\ pending' = PushIfAvailable(firestoreAvailable, next)
           /\ last' = Record("save", Some(next), next # settings)
           /\ landed' = Landed("local", Some(next))
    /\ UNCHANGED <<loading, firestoreAvailable, pc, initLocal, subscribed,
                   remote, inbox, panelOpen, draft, raised, established>>
    /\ UNCHANGED <<mounted, harnessVars>>

\* resetSettings()
ResetSettings ==
    /\ CanPush
    /\ LET def == deepClone(DEFAULT_SITE_SETTINGS)
       IN  /\ settings' = def
           /\ cache' = saveToLocalStorage(def)
           /\ pending' = PushIfAvailable(firestoreAvailable, def)
           /\ last' = Record("reset", Some(def), def # settings)
           /\ landed' = Landed("local", Some(def))
    /\ UNCHANGED <<loading, firestoreAvailable, pc, initLocal, subscribed,
                   remote, inbox, panelOpen, draft, raised, established>>
    /\ UNCHANGED <<mounted, harnessVars>>

\* updateSettings(updater): the updater runs on the current state, and the
\* cache and the remote write are made inside it
UpdateSettings ==
    /\ CanPush
    /\ LET next == Updater(settings)
       IN  /\ settings' = next
           /\ cache' = saveToLocalStorage(next)
           /\ pending' = PushIfAvailable(firestoreAvailable, next)
           /\ last' = Record("update", Some(next), next # settings)
           /\ landed' = Landed("local", Some(next))
    /\ UNCHANGED <<loading, firestoreAvailable, pc, initLocal, subscribed,
                   remote, inbox, panelOpen, draft, raised, established>>
    /\ UNCHANGED <<mounted, harnessVars>>

\* `unsubscribe` is assigned by init after its awaits: null until then
UnsubscribeAssigned == pc = "done"

\* the provider unmounts: the effect's cleanup, `if (unsubscribe) unsubscribe()`
Teardown ==
    /\ mounted
    /\ mounted' = FALSE
    /\ IF UnsubscribeAssigned
       THEN /\ subscribed' = FALSE
            /\ inbox' = <<>>
       ELSE UNCHANGED <<subscribed, inbox>>
    /\ last' = Record("teardown", None, FALSE)
    /\ UNCHANGED <<landed, settings, loading, firestoreAvailable, cache, pc,
                   initLocal, remote, pending, panelOpen, draft, raised,
                   established>>
    /\ UNCHANGED harnessVars

\* init() goes on after the cleanup, nothing cancels it: fetchSiteSettings()
\* returned a document.  The state setters of the unmounted provider do
\* nothing; the cache is written and the listener is registered
FetchReturnsDocUnmounted ==
    /\ ~mounted
    /\ pc = "fetching"
    /\ LET r == fetchSiteSettings(remote, TRUE)
           merged == FetchedSettings(settings, r)
       IN  /\ r.some
           /\ cache' = saveToLocalStorage(merged)
           /\ last' = Record("fetchDoc", r, FALSE)
    /\ subscribed' = TRUE
    /\ inbox' = Append(inbox, Snapshot(remote))
    /\ pc' = "done"
    /\ established' = TRUE
    /\ UNCHANGED <<landed, settings, loading, firestoreAvailable, initLocal,
                   remote, pending, panelOpen, draft, raised>>
    /\ UNCHANGED <<mounted, harnessVars>>

\* init() after the cleanup: the push of the local document resolved; then
\* the subscription
InitPushResolvesUnmounted ==
    /\ ~mounted
    /\ pc = "pushing"
    /\ \E setDocOk \in BOOLEAN :
        LET result == saveSiteSettingsToFirestore(setDocOk)
            stored == IF setDocOk
                      THEN setDocMerge(remote, deepClone(initLocal.doc))
                      ELSE remote
        IN  /\ remote' = stored
            /\ raised' = (raised \/ Uncaught(result, TRUE))
            /\ established' = (established \/ setDocOk)
            /\ inbox' = Append(inbox, Snapshot(stored))
            /\ last' = Record(IF setDocOk THEN "initPushOk" ELSE "initPushFailed",
                              None, FALSE)
    /\ subscribed' = TRUE
    /\ pc' = "done"
    /\ initLocal' = None
    /\ UNCHANGED <<landed, settings, loading, firestoreAvailable, cache, pending,
                   panelOpen, draft>>
    /\ UNCHANGED <<mounted, harnessVars>>

\* the listener that outlived the provider delivers its next event: the
\* callback's state setters do nothing, saveToLocalStorage(merged) runs
NotifyUnmounted ==
    /\ ~mounted
    /\ inbox # <<>>
    /\ LET event == Head(inbox)
           data == subscribeSiteSettings(event)
           merged == CallbackSettings(settings, data)
           op == IF event.kind = "error" THEN "notifyError"
                 ELSE IF event.data.some THEN "notify" ELSE "notifyNull"
       IN  IF data.some
           THEN /\ cache' = saveToLocalStorage(merged)
                /\ established' = TRUE
                /\ last' = Record(op, data, FALSE)
           ELSE /\ UNCHANGED <<cache, established>>
                /\ last' = Record(op, None, FALSE)
    /\ inbox' = Tail(inbox)
    /\ UNCHANGED <<landed, settings, firestoreAvailable, draft, loading, pc,
                   initLocal, subscribed, remote, pending, panelOpen, raised>>
    /\ UNCHANGED <<mounted, harnessVars>>

(***************************************************************************)
(* Gallery.normalizeFeaturedUrl (src/unnamed/part_000)                     *)
(***************************************************************************)
IsDigit(c) == c \in {"0", "1", "2", "3", "4", "5", "6", "7", "8", "9"}

\* str.trim(); the white space of this model is the space character
RECURSIVE TrimStart(_)
TrimStart(str) ==
    IF str # <<>> /\ Head(str) = " " THEN TrimStart(Tail(str)) ELSE str
RECURSIVE TrimEnd(_)
TrimEnd(str) ==
    IF str # <<>> /\ str[Len(str)] = " "
    THEN TrimEnd(SubSeq(str, 1, Len(str) - 1))
    ELSE str
Trim(str) == TrimEnd(TrimStart(str))

\* /^\d+$/.test(str)
AllDigits(str) == str # <<>> /\ \A i \in 1..Len(str) : IsDigit(str[i])

\* str.startsWith(prefix), str.includes(c), str.indexOf(c) (0 when absent)
StartsWith(str, prefix) == IsPrefix(prefix, str)
Includes(str, c) == \E i \in 1..Len(str) : str[i] = c
IndexOf(str, c) ==
    IF Includes(str, c)
    THEN CHOOSE i \in 1..Len(str) :
            str[i] = c /\ \A j \in 1..(i - 1) : str[j] # c
    ELSE 0

\* the letters of "https", in lower case (the i flag of the regex)
LowerCase(c) ==
    CASE c = "H" -> "h" [] c = "T" -> "t" [] c = "P" -> "p" [] c = "S" -> "s"
      [] OTHER -> c

\* /^https?:\/\//i.test(url)
IsAbsoluteHttp(url) ==
    LET lower == [i \in 1..Len(url) |-> LowerCase(url[i])]
    IN  \/ StartsWith(lower, <<"h", "t", "t", "p", ":", "/", "/">>)
        \/ StartsWith(lower, <<"h", "t", "t", "p", "s", ":", "/", "/">>)

\* url.split("?")[0]
PathOnly(url) ==
    IF Includes(url, "?") THEN SubSeq(url, 1, IndexOf(url, "?") - 1) ELSE url

\* path.split("/").pop(): what follows the last "/"
RECURSIVE LastSegment(_)
LastSegment(path) ==
    IF Includes(path, "/")
    THEN LastSegment(SubSeq(path, IndexOf(path, "/") + 1, Len(path)))
    ELSE path

\* url.includes("?") ? url.slice(url.indexOf("?")) : ""
QueryOf(url) ==
    IF Includes(url, "?") THEN SubSeq(url, IndexOf(url, "?"), Len(url))
    ELSE <<>>

\* mutant: the shorthand always expanded under /gallery
Shorthand_GalleryOnly(url, folder, ext) ==
    IF AllDigits(url)
    THEN <<"/", "g", "a", "l", "l", "e", "r", "y", "/">> \o url \o <<".">> \o ext
    ELSE url

\* `if (/^\d+$/.test(url)) url = `${folder}/${url}.${ext}``
Shorthand(url, folder, ext) ==
    IF AllDigits(url)
    THEN folder \o <<"/">> \o url \o <<".">> \o ext
    ELSE url

\* mutant: the extension never appended
InternalPath_NoExtension(url, ext) ==
    IF StartsWith(url, <<"/">>) THEN url
    ELSE IF StartsWith(url, <<"g", "a", "l", "l", "e", "r", "y", "/">>) \/ Includes(url, "/")
    THEN <<"/">> \o url
    ELSE <<"/", "g", "a", "l", "l", "e", "r", "y", "/">> \o url

\* the body of `if (!/^https?:\/\//i.test(url))`: the leading slash, then
\* the extension
InternalPath(url, ext) ==
    LET a == IF StartsWith(url, <<"g", "a", "l", "l", "e", "r", "y", "/">>) THEN <<"/">> \o url ELSE url
        b == IF ~StartsWith(a, <<"/">>)
             THEN (IF ~Includes(a, "/") THEN <<"/", "g", "a", "l", "l", "e", "r", "y", "/">> \o a
                   ELSE <<"/">> \o a)
             ELSE a
        pathOnly == PathOnly(b)
        lastSegment == LastSegment(pathOnly)
    IN  IF lastSegment # <<>> /\ ~Includes(lastSegment, ".")
        THEN pathOnly \o <<".">> \o ext \o QueryOf(b)
        ELSE b

\* mutant: every URL taken for an internal one
IsInternal_Always(url, folder) == TRUE

\* isInternal
IsInternal(url, folder) ==
    \/ StartsWith(url, <<"/", "g", "a", "l", "l", "e", "r", "y", "/">>)
    \/ StartsWith(url, folder \o <<"/">>)

\* the places where /[?&]v=\d+/ matches
VersionMatches(url) ==
    {i \in 1..(Len(url) - 3) :
        /\ url[i] \in {"?", "&"}
        /\ url[i + 1] = "v"
        /\ url[i + 2] = "="
        /\ IsDigit(url[i + 3])}

\* url.replace(/([?&]v=)\d+/, `$1${v}`): the digits of the first match
\* replaced ($1 is the only group, so the digits of v after it are text)
ReplaceVersion(url, v) ==
    LET i == CHOOSE m \in VersionMatches(url) :
                \A n \in VersionMatches(url) : m <= n
        j == CHOOSE k \in (i + 3)..Len(url) :
                /\ \A d \in (i + 3)..k : IsDigit(url[d])
                /\ (k = Len(url) \/ ~IsDigit(url[k + 1]))
    IN  SubSeq(url, 1, i + 2) \o NumberToString(v) \o SubSeq(url, j + 1, Len(url))

\* mutant: the version always appended
CacheBust_AlwaysAppend(url, v) ==
    url \o (IF Includes(url, "?") THEN <<"&", "v", "=">> ELSE <<"?", "v", "=">>) \o NumberToString(v)

\* the body of `if (isInternal)`
CacheBust(url, v) ==
    IF VersionMatches(url) # {}
    THEN ReplaceVersion(url, v)
    ELSE url \o (IF Includes(url, "?") THEN <<"&", "v", "=">> ELSE <<"?", "v", "=">>)
             \o NumberToString(v)

normalizeFeaturedUrl(s, input) ==
    LET trimmed == Trim(input)
        folder == IF s.gallery.numbered.folder = <<>>
                  THEN <<"/", "g", "a", "l", "l", "e", "r", "y">>
                  ELSE s.gallery.numbered.folder
        ext == StripLeadingDot(IF s.gallery.numbered.extension = <<>>
                               THEN <<"j", "p", "e", "g">>
                               ELSE s.gallery.numbered.extension)
        expanded == Shorthand(trimmed, folder, ext)
        path == IF ~IsAbsoluteHttp(expanded)
                THEN InternalPath(expanded, ext)
                ELSE expanded
        v == IF IsNumber(s.gallery.assetVersion)
             THEN s.gallery.assetVersion.n
             ELSE 1
    IN  IF trimmed = <<>> THEN <<>>
        ELSE IF IsInternal(path, folder) THEN CacheBust(path, v)
        ELSE path

(***************************************************************************)
(* SpecFeatured: normalizeFeaturedUrl applied to entries of                *)
(* featuredNails.imageUrls under several numbered settings.                *)
(***************************************************************************)
\* an entry is white space, a prefix, a name, a query and white space
EntryPrefixes ==
    {<<>>, <<"/">>, <<"g", "a", "l", "l", "e", "r", "y", "/">>, <<"/", "g", "a", "l", "l", "e", "r", "y", "/">>, <<"i", "m", "g", "/">>, <<"/", "i", "m", "g", "/">>,
     <<"h", "t", "t", "p", "s", ":", "/", "/", "x", "/">>, <<"H", "T", "T", "P", ":", "/", "/", "x", "/">>, <<"h", "t", "t", "p", "s", ":", "/", "/", "x", "/", "g", "a", "l", "l", "e", "r", "y", "/">>}
EntryNames == {<<>>, <<"1", "2">>, <<"n", "a", "i", "l", "s", "1">>, <<"a", ".", "p", "n", "g">>}
EntryQueries ==
    {<<>>, <<"?", "v", "=", "3">>, <<"?", "a", "=", "1">>, <<"?", "a", "=", "1", "&", "v", "=", "3", "0">>, <<"?", "v", "=", "x">>, <<"?", "v", "=", "3", "&", "v", "=", "4">>}
EntryPadding == {<<>>, <<" ">>}

FeaturedEntries ==
    {w \o p \o n \o q \o w :
        w \in EntryPadding, p \in EntryPrefixes, n \in EntryNames,
        q \in EntryQueries}

FeaturedFolders == Folders \cup {<<"h", "t", "t", "p", "s", ":", "/", "/", "x">>}
FeaturedVersions == {JsNumber(5), JsNumber(12)}

FeaturedSettings ==
    {[DEFAULT_SITE_SETTINGS EXCEPT
        !.gallery.assetVersion = v,
        !.gallery.numbered.folder = f,
        !.gallery.numbered.extension = e] :
        f \in FeaturedFolders, e \in Extensions, v \in FeaturedVersions}

FeaturedIdle ==
    /\ fIn = [settings |-> DEFAULT_SITE_SETTINGS, input |-> <<>>]
    /\ fOut = NotRun

FeaturedInit ==
    /\ fIn \in [settings : FeaturedSettings, input : FeaturedEntries]
    /\ fOut = NotRun

NormalizeFeatured ==
    /\ ~fOut.done
    /\ fOut' = Ran(normalizeFeaturedUrl(fIn.settings, fIn.input))
    /\ UNCHANGED <<fIn, galleryVars, mergeVars, loadVars, pageVars>>
    /\ UNCHANGED storeVars

(***************************************************************************)
(* SpecLoad: loadFromLocalStorage applied to cache entries, and a caller   *)
(* that then changes the object it was given.                              *)
(***************************************************************************)
\* the documents a cache entry may hold: one of an earlier version, a
\* complete one, and every document of at most one field, well or ill shaped
CachedDocs ==
    {OldCacheDoc, Incoming}
    \cup UNION {{PartialObject(<<>>, P, B) : B \in SUBSET (P \cap ShapedLeaves)} :
               P \in {{}} \cup {{q} : q \in Leaves}}

CacheEntries ==
    {NoItem, EmptyItem, Garbage, JsonNull}
    \cup {JsonStringify(d) : d \in CachedDocs}

LoadIdle == lIn = NoItem /\ lOut = NotRun /\ defaults = DEFAULT_SITE_SETTINGS

LoadInit ==
    /\ lIn \in CacheEntries
    /\ lOut = NotRun
    /\ defaults = DEFAULT_SITE_SETTINGS

RunLoad ==
    /\ ~lOut.done
    /\ lOut' = [done |-> TRUE,
                loaded |-> loadFromLocalStorage(lIn),
                now |-> loadFromLocalStorage(lIn),
                shared |-> loadFromLocalStorageShared(lIn),
                changed |-> FALSE]
    /\ UNCHANGED <<lIn, defaults, galleryVars, mergeVars, featuredVars, pageVars>>
    /\ UNCHANGED storeVars

\* obj with the value at path replaced
RECURSIVE Put(_, _, _)
Put(obj, path, v) ==
    IF path = <<>> THEN v
    ELSE [obj EXCEPT ![Head(path)] = Put(obj[Head(path)], Tail(path), v)]

\* the changes a caller makes in place: array.push(array[0]) on an array
\* field (array.push(0) on an empty one), or contact.email = value
Changes(obj) ==
    {[object |-> p, field |-> p] :
        p \in {q \in ArrayLeaves : IsArray(Get(obj, q))}}
    \cup {[object |-> <<"contact">>, field |-> <<"contact", "email">>]}

Changed(obj, c) ==
    IF c.field = <<"contact", "email">> THEN Put(obj, c.field, TypedEmail)
    ELSE LET a == Get(obj, c.field).items
         IN  Put(obj, c.field,
                 JsArray(Append(a, IF a = <<>> THEN 0 ELSE a[1])))

\* the change made through one reference shows through every reference to
\* the same object
ChangeLoaded ==
    /\ lOut.done
    /\ ~lOut.changed
    /\ \E c \in Changes(lOut.now) :
        /\ lOut' = [lOut EXCEPT !.now = Changed(lOut.now, c),
                                !.changed = TRUE]
        /\ defaults' = IF c.object \in lOut.shared
                       THEN Changed(defaults, c)
                       ELSE defaults
    /\ UNCHANGED <<lIn, galleryVars, mergeVars, featuredVars, pageVars>>
    /\ UNCHANGED storeVars

(***************************************************************************)
(* SpecNails: Gallery's nailsAll, the featured image list, computed from   *)
(* settings whose featuredNails.imageUrls holds up to MaxFeatured entries. *)
(***************************************************************************)
\* mutant: the empty entries kept
nailsAll_KeepEmpty(s) ==
    LET featuredNails == s.gallery.featuredNails
        raw == IF IsArray(featuredNails.imageUrls)
               THEN featuredNails.imageUrls.items
               ELSE <<>>
    IN  Unique([i \in 1..Len(raw) |-> normalizeFeaturedUrl(s, raw[i])])

\* Array.from(new Set((featuredNails?.imageUrls || [])
\*     .map(normalizeFeaturedUrl).filter(Boolean)))
nailsAll(s) ==
    LET featuredNails == s.gallery.featuredNails
        raw == IF IsArray(featuredNails.imageUrls)
               THEN featuredNails.imageUrls.items
               ELSE <<>>
        mapped == [i \in 1..Len(raw) |-> normalizeFeaturedUrl(s, raw[i])]
        list == FilterSeq(mapped, {mapped[i] : i \in 1..Len(mapped)} \ {<<>>})
    IN  Unique(list)

\* the entries an admin types into the featured list, one per line
NailsEntries ==
    {<<>>, <<" ">>, <<"1", "2">>, <<" ", "1", "2", " ">>, <<"/", "g", "a", "l", "l", "e", "r", "y", "/", "1", "2", ".", "j", "p", "e", "g">>, <<"/", "g", "a", "l", "l", "e", "r", "y", "/", "1", "2", ".", "j", "p", "e", "g", "?", "v", "=", "3">>,
     <<"n", "a", "i", "l", "s", "1">>, <<"h", "t", "t", "p", "s", ":", "/", "/", "x", "/", "a", ".", "p", "n", "g">>}

NailsSettings ==
    {[DEFAULT_SITE_SETTINGS EXCEPT !.gallery.featuredNails.imageUrls = JsArray(l)] :
        l \in SeqsUpTo(NailsEntries, MaxFeatured)}

NailsIdle == nIn = DEFAULT_SITE_SETTINGS /\ nOut = NotRun

NailsInit == nIn \in NailsSettings /\ nOut = NotRun

RenderGallery ==
    /\ ~nOut.done
    /\ nOut' = Ran(nailsAll(nIn))
    /\ UNCHANGED <<nIn, notNails>>

(***************************************************************************)
(* SpecSpecials: the items Specials displays, computed from the stored     *)
(* promotions at one reading of the clock.                                 *)
(***************************************************************************)
\* .slice(0, 12)
DisplayLimit == 12

\* Date.now() when the list is computed
Now == 5

\* validUntil: "", a string Date cannot parse, or the ISO string of time t
NoDate == [kind |-> "empty"]
BadDate == [kind |-> "unparseable"]
IsoDate(t) == [kind |-> "iso", t |-> t]

\* a null entry of the items array
NoPromotion == [kind |-> "null"]

\* mutant: validUntil not looked at
PassesFilter_IgnoreDate(x, now) ==
    /\ x # NoPromotion
    /\ Trim(x.title) # <<>>

\* the callback of .filter in Specials
PassesFilter(x, now) ==
    /\ x # NoPromotion
    /\ Trim(x.title) # <<>>
    /\ \/ x.validUntil = NoDate
       \/ x.validUntil = BadDate
       \/ x.validUntil.t >= now

\* the useMemo of Specials
SpecialsItems(promotions, now) ==
    IF ~promotions.enabled THEN <<>>
    ELSE LET items == promotions.items
             kept == FilterSeq(items, {x \in {items[i] : i \in 1..Len(items)} :
                                          PassesFilter(x, now)})
         IN  SubSeq(kept, 1, Min(DisplayLimit, Len(kept)))

PromotionTitles == {<<>>, <<" ">>, <<"S", "a", "l", "e">>}
PromotionDates == {NoDate, BadDate, IsoDate(Now - 1), IsoDate(Now), IsoDate(Now + 1)}

\* one stored promotion, or none, before and after a run of current ones
PromotionEdges ==
    {<<>>, <<NoPromotion>>}
    \cup {<<[title |-> t, validUntil |-> d]>> :
             t \in PromotionTitles, d \in PromotionDates}

PromotionRun(m) == [i \in 1..m |-> [title |-> <<"S", "a", "l", "e">>, validUntil |-> NoDate]]

\* the stored items, each with its id
WithIds(items) ==
    [i \in 1..Len(items) |->
        IF items[i] = NoPromotion THEN NoPromotion
        ELSE [id |-> i, title |-> items[i].title, validUntil |-> items[i].validUntil]]

StoredPromotions ==
    {[enabled |-> e, items |-> WithIds(a \o PromotionRun(m) \o b)] :
        e \in BOOLEAN, a \in PromotionEdges, b \in PromotionEdges, m \in 0..MaxRun}

SpecialsIdle == pIn = [promotions |-> [enabled |-> FALSE, items |-> <<>>], now |-> Now] /\ pOut = NotRun

SpecialsInit == pIn \in [promotions : StoredPromotions, now : {Now}] /\ pOut = NotRun

RenderSpecials ==
    /\ ~pOut.done
    /\ pOut' = Ran(SpecialsItems(pIn.promotions, pIn.now))
    /\ UNCHANGED <<pIn, notSpecials>>


(***************************************************************************)
(* SpecAuth: adminLogin, adminLogout and adminMe (src/src/api/adminAuth.ts)*)
(* over the identity provider, with AuthProvider, AdminLogin and the       *)
(* route guard of AppContent that call them.                               *)
(***************************************************************************)
ADMIN_EMAIL == <<"j", "a", "y", "t", "e", "c", "a", "1", "5", "@", "g", "m", "a", "i", "l", ".", "c", "o", "m">>

\* auth.currentUser: null, or a user with an email (null for an anonymous one)
NoUser == [user |-> FALSE]
User(email) == [user |-> TRUE, email |-> email]

\* cred.user.email || "" / user?.email || ""
EmailOf(u) == IF u.user THEN u.email ELSE <<>>

\* String(email).trim().toLowerCase() !== ADMIN_EMAIL.toLowerCase(), negated
IsAdminEmail(email) == LowerCase(Trim(email)) = LowerCase(ADMIN_EMAIL)

\* userEmail.toLowerCase() !== ADMIN_EMAIL.toLowerCase(), negated
IsAdminAccount(userEmail) == LowerCase(userEmail) = LowerCase(ADMIN_EMAIL)

\* the catch block of adminLogin
ErrorMessage(code) ==
    IF code \in {"auth/user-not-found", "auth/wrong-password", "auth/invalid-credential"}
    THEN "Invalid email or password"
    ELSE IF code = "auth/too-many-requests"
    THEN "Too many failed attempts. Please try again later."
    ELSE IF code = "auth/network-request-failed"
    THEN "Network error. Check your internet connection."
    ELSE IF code = "auth/invalid-email"
    THEN "Invalid email address format."
    ELSE "Invalid email or password"

\* what signInWithEmailAndPassword rejects with: a code of the first branch
\* of the catch block, two codes with a message of their own, and a code the
\* catch block does not name
SignInErrors ==
    {"auth/wrong-password", "auth/too-many-requests",
     "auth/invalid-email", "auth/internal-error"}

\* what signOut rejects with
SignOutErrors == {"auth/internal-error"}

\* the accounts the provider may sign in
Accounts == {ADMIN_EMAIL, <<"J", "a", "y", "t", "e", "c", "a", "1", "5", "@", "G", "m", "a", "i", "l", ".", "c", "o", "m">>, <<"e", "v", "e", "@", "x", ".", "c", "o", "m">>, <<>>}

\* what is typed into the Email field
TypedEmails == {ADMIN_EMAIL, <<" ", "J", "a", "y", "t", "e", "c", "a", "1", "5", "@", "g", "m", "a", "i", "l", ".", "c", "o", "m">>, <<"e", "v", "e", "@", "x", ".", "c", "o", "m">>}

\* the sessions the provider may have kept from an earlier visit
KeptSessions == {NoUser} \cup {User(a) : a \in Accounts}

\* mutant: no loading view while the start-up check is pending
View_NoLoading(checked, page, authenticated) ==
    IF page = "admin-login" THEN "login"
    ELSE IF page = "admin-dashboard"
    THEN (IF authenticated THEN "dashboard" ELSE "login")
    ELSE "site"

\* what AppContent renders
View(checked, page, authenticated) ==
    IF ~checked /\ page \in {"admin-dashboard", "admin-login"} THEN "loading"
    ELSE IF page = "admin-login" THEN "login"
    ELSE IF page = "admin-dashboard"
    THEN (IF authenticated THEN "dashboard" ELSE "login")
    ELSE "site"

Rendered == View(authChecked, currentPage, isAuthenticated)

\* the AdminLogin that awaits a login is unmounted when another view is rendered
Unmounted(ls) == [i \in 1..Len(ls) |-> [ls[i] EXCEPT !.mounted = FALSE]]

\* the logins in flight and the error shown, once the next view is rendered
FormAfter(ls, err, view) ==
    IF view = "login" THEN [logins |-> ls, error |-> err]
    ELSE [logins |-> Unmounted(ls), error |-> ""]

Without(ls, i) == SubSeq(ls, 1, i - 1) \o SubSeq(ls, i + 1, Len(ls))

NoCall == [op |-> "none"]

\* a failed sign-in: its cause and what AdminLogin was given to show
Failure(cause, message) == [cause |-> cause, shown |-> message]

\* the failure kept for comparison: the one of before, or this one
Remember(f) == remembered' \in {remembered, Some(f)}

AuthIdle ==
    /\ authUser = NoUser
    /\ isAuthenticated = FALSE
    /\ authChecked = FALSE
    /\ currentPage = "home"
    /\ me = "waiting"
    /\ logins = <<>>
    /\ loggingOut = 0
    /\ error = ""
    /\ authLast = NoCall
    /\ remembered = None

\* App mounts: AuthProvider starts adminMe(), AppContent shows "home"
AuthInit ==
    /\ authUser \in KeptSessions
    /\ isAuthenticated = FALSE
    /\ authChecked = FALSE
    /\ currentPage = "home"
    /\ me = "waiting"
    /\ logins = <<>>
    /\ loggingOut = 0
    /\ error = ""
    /\ authLast = NoCall
    /\ remembered = None

\* the states of AuthProvider after login()/the start-up check set them
SetAuth(authenticated, page, ls, err) ==
    LET form == FormAfter(ls, err, View(TRUE, page, authenticated))
    IN  /\ isAuthenticated' = authenticated
        /\ authChecked' = TRUE
        /\ currentPage' = page
        /\ logins' = form.logins
        /\ error' = form.error

\* adminMe: onAuthStateChanged calls back with the current user
AuthStateFires ==
    /\ me = "waiting"
    /\ IF authUser.user /\ ~IsAdminAccount(EmailOf(authUser))
       THEN /\ me' = "signingOut"
            /\ UNCHANGED <<authUser, isAuthenticated, authChecked, currentPage,
                           logins, error, authLast>>
       ELSE /\ me' = "done"
            /\ SetAuth(authUser.user, currentPage, logins, error)
            /\ authLast' = [op |-> "me", ok |-> authUser.user, session |-> authUser,
                            after |-> authUser]
            /\ UNCHANGED authUser
    /\ UNCHANGED <<loggingOut, remembered, notAuth>>

\* adminMe: its signOut settles, resolve(false)
MeSignOutReturns ==
    /\ me = "signingOut"
    /\ \E done \in BOOLEAN :
          /\ authUser' = IF done THEN NoUser ELSE authUser
          /\ authLast' = [op |-> "me", ok |-> FALSE, session |-> authUser,
                          after |-> authUser']
    /\ me' = "done"
    /\ SetAuth(FALSE, currentPage, logins, error)
    /\ UNCHANGED <<loggingOut, remembered, notAuth>>

\* a click on Admin (site), Back to Website (login) or View Site (dashboard)
Navigate ==
    /\ \E page \in {"home", "admin-login"} :
          /\ \/ Rendered = "site" /\ page = "admin-login"
             \/ Rendered \in {"login", "dashboard"} /\ page = "home"
          /\ currentPage' = page
          /\ LET form == FormAfter(logins, error, View(authChecked, page, isAuthenticated))
             IN  logins' = form.logins /\ error' = form.error
    /\ UNCHANGED <<authUser, isAuthenticated, authChecked, me, loggingOut,
                   authLast, remembered, notAuth>>

\* the useEffect of AppContent
GuardEffect ==
    /\ authChecked
    /\ \/ isAuthenticated /\ currentPage = "admin-login"
       \/ ~isAuthenticated /\ currentPage = "admin-dashboard"
    /\ currentPage' = IF isAuthenticated THEN "admin-dashboard" ELSE "admin-login"
    /\ LET form == FormAfter(logins, error, View(authChecked, currentPage', isAuthenticated))
       IN  logins' = form.logins /\ error' = form.error
    /\ UNCHANGED <<authUser, isAuthenticated, authChecked, me, loggingOut,
                   authLast, remembered, notAuth>>

\* AdminLogin.handleSubmit up to its await; adminLogin up to its first await,
\* or to its return when the guard rejects the address
SubmitLogin ==
    /\ Rendered = "login"
    /\ \A i \in 1..Len(logins) : ~logins[i].mounted
    /\ Len(logins) < MaxLogins
    /\ \E email \in TypedEmails :
          IF IsAdminEmail(email)
          THEN /\ logins' = Append(logins, [email |-> email, stage |-> "signingIn",
                                            mounted |-> TRUE, credential |-> NoUser])
               /\ error' = ""
               /\ UNCHANGED <<isAuthenticated, authChecked, currentPage, authLast,
                              remembered>>
          ELSE /\ SetAuth(FALSE, currentPage, logins, "Unauthorized admin email")
               /\ authLast' = [op |-> "login", ok |-> FALSE, email |-> email,
                               called |-> FALSE, credential |-> NoUser,
                               after |-> authUser,
                               message |-> "Unauthorized admin email"]
               /\ Remember(Failure("non-admin email", "Unauthorized admin email"))
    /\ UNCHANGED <<authUser, me, loggingOut, notAuth>>

\* the message AdminLogin shows for a failed login, if it is still mounted
Shown(l, message) == IF l.mounted THEN message ELSE error

\* signInWithEmailAndPassword resolves: adminLogin goes on to its return, or
\* to its signOut
SignInResolves ==
    \E i \in 1..Len(logins), account \in Accounts :
        LET l == logins[i]
        IN  /\ l.stage = "signingIn"
            /\ authUser' = User(account)
            /\ IF ~IsAdminAccount(account)
               THEN /\ logins' = [logins EXCEPT ![i].stage = "signingOut",
                                                ![i].credential = User(account)]
                    /\ UNCHANGED <<isAuthenticated, authChecked, currentPage, error,
                                   authLast>>
               ELSE /\ SetAuth(TRUE, "admin-dashboard", Without(logins, i), error)
                    /\ authLast' = [op |-> "login", ok |-> TRUE, email |-> l.email,
                                    called |-> TRUE, credential |-> User(account),
                                    after |-> authUser', message |-> ""]
            /\ UNCHANGED <<me, loggingOut, remembered, notAuth>>

\* signInWithEmailAndPassword rejects: the catch block, login(), handleSubmit
SignInRejects ==
    \E i \in 1..Len(logins), code \in SignInErrors :
        LET l == logins[i]
            message == ErrorMessage(code)
        IN  /\ l.stage = "signingIn"
            /\ SetAuth(FALSE, currentPage, Without(logins, i), Shown(l, message))
            /\ authLast' = [op |-> "login", ok |-> FALSE, email |-> l.email,
                            called |-> TRUE, credential |-> NoUser,
                            after |-> authUser, message |-> message]
            /\ Remember(Failure(code, message))
            /\ UNCHANGED <<authUser, me, loggingOut, notAuth>>

\* the signOut of adminLogin settles: its return, or its catch block
LoginSignOutReturns ==
    \E i \in 1..Len(logins), outcome \in {"done"} \cup SignOutErrors :
        LET l == logins[i]
            message == IF outcome = "done" THEN "Unauthorized admin account"
                       ELSE ErrorMessage(outcome)
        IN  /\ l.stage = "signingOut"
            /\ authUser' = IF outcome = "done" THEN NoUser ELSE authUser
            /\ SetAuth(FALSE, currentPage, Without(logins, i), Shown(l, message))
            /\ authLast' = [op |-> "login", ok |-> FALSE, email |-> l.email,
                            called |-> TRUE, credential |-> l.credential,
                            after |-> authUser', message |-> message]
            /\ Remember(Failure("non-admin account", message))
            /\ UNCHANGED <<me, loggingOut, notAuth>>

\* AdminDashboard.handleLogout up to its await
ClickLogout ==
    /\ Rendered = "dashboard"
    /\ loggingOut < MaxLogouts
    /\ loggingOut' = loggingOut + 1
    /\ UNCHANGED <<authUser, isAuthenticated, authChecked, currentPage, me, logins,
                   error, authLast, remembered, notAuth>>

\* adminLogout's signOut settles: logout() and handleLogout go on
LogoutReturns ==
    /\ loggingOut > 0
    /\ loggingOut' = loggingOut - 1
    /\ \E done \in BOOLEAN :
          /\ authUser' = IF done THEN NoUser ELSE authUser
          /\ authLast' = [op |-> "logout", ok |-> done, after |-> authUser']
    /\ SetAuth(FALSE, "home", logins, error)
    /\ UNCHANGED <<me, remembered, notAuth>>

LibraryIdle == GalleryIdle /\ MergeIdle /\ LoadIdle /\ FeaturedIdle

(***************************************************************************)
(* SpecReviews: the review form of Reviews, handleSubmit, and addReview    *)
(* (src/src/api/firestoreService.ts) over the reviews collection.          *)
(***************************************************************************)
MAX_REVIEW_LEN == 500

Repeat(c, n) == [i \in 1..n |-> c]

\* text.slice(0, MAX_REVIEW_LEN)
Slice(str, n) == SubSeq(str, 1, Min(n, Len(str)))

EmptyForm ==
    [name |-> <<>>, service |-> <<>>, rating |-> 5, text |-> <<>>, website |-> <<>>]

\* what the fields of the form may be given
FormNames == {<<>>, <<" ", "A", " ">>, <<"A", "l">>}
FormServices == {<<>>, <<"N", "a", "i", "l", "s">>}
FormTexts ==
    {<<>>, <<" ", "t", "o", "o", " ", "s", "h", "o", "r", "t", " ">>, <<" ", "t", "e", "n", " ", "c", "h", "a", "r", "s", "!", " ">>, Repeat("x", MaxText - 1),
     <<" ">> \o Repeat("x", MaxText)}
FormWebsites == {<<>>, <<" ">>, <<"h", "t", "t", "p", ":", "/", "/", "b", "o", "t">>}

\* the argument of addReviewToFirestore in handleSubmit
ReviewData(form) ==
    [name |-> Trim(form.name), service |-> Trim(form.service),
     rating |-> form.rating, text |-> Slice(Trim(form.text), MAX_REVIEW_LEN),
     date |-> "now"]

\* mutant: only the honeypot looked at
Validate_HoneypotOnly(form) ==
    IF Trim(form.website) # <<>> THEN "honeypot" ELSE "ok"

\* the checks of handleSubmit: which one stops the submission
Validate(form) ==
    IF Trim(form.website) # <<>> THEN "honeypot"
    ELSE IF Len(Trim(form.name)) < 2 THEN "Please enter your name."
    ELSE IF Trim(form.service) = <<>> THEN "Please select a service."
    ELSE IF Len(Trim(form.text)) < 10
    THEN "Please write a short review (at least 10 characters)."
    ELSE "ok"

ReviewsIdle ==
    /\ formData = EmptyForm
    /\ formError = ""
    /\ submitted = FALSE
    /\ isSubmitting = FALSE
    /\ adding = <<>>
    /\ reviewDocs = {}
    /\ revLast = [op |-> "none"]

\* the form as it is filled in when Submit is clicked
FilledForms ==
    [name : FormNames, service : FormServices, rating : 1..5, text : FormTexts,
     website : FormWebsites]

ReviewsInit ==
    /\ formData \in FilledForms
    /\ formError = ""
    /\ submitted = FALSE
    /\ isSubmitting = FALSE
    /\ adding = <<>>
    /\ reviewDocs = {}
    /\ revLast = [op |-> "none"]

\* handleSubmit up to its return or its await
SubmitReview ==
    /\ ~isSubmitting
    /\ Len(adding) < MaxAdds
    /\ LET verdict == Validate(formData)
       IN  /\ formError' = IF verdict \in {"honeypot", "ok"} THEN "" ELSE verdict
           /\ isSubmitting' = (verdict = "ok")
           /\ adding' = IF verdict = "ok" THEN Append(adding, ReviewData(formData))
                        ELSE adding
           /\ revLast' = [op |-> "submit", form |-> formData, issued |-> verdict = "ok",
                          message |-> formError']
    /\ UNCHANGED <<formData, submitted, reviewDocs, notReviews>>

\* addDoc resolves: addReview returns the id, handleSubmit goes on
AddReviewResolves ==
    /\ adding # <<>>
    /\ Cardinality(reviewDocs) < MaxReviews
    /\ reviewDocs' = reviewDocs \cup {Head(adding)}
    /\ adding' = Tail(adding)
    /\ isSubmitting' = FALSE
    /\ formData' = EmptyForm
    /\ submitted' = TRUE
    /\ UNCHANGED <<formError, revLast, notReviews>>

\* addDoc rejects: addReview returns null, handleSubmit goes on
AddReviewRejects ==
    /\ adding # <<>>
    /\ adding' = Tail(adding)
    /\ isSubmitting' = FALSE
    /\ formError' = "Could not submit your review right now. Please try again."
    /\ UNCHANGED <<formData, submitted, reviewDocs, revLast, notReviews>>

\* setTimeout(() => setSubmitted(false), 4000)
HideThanks ==
    /\ submitted
    /\ submitted' = FALSE
    /\ UNCHANGED <<formData, formError, isSubmitting, adding, reviewDocs, revLast,
                   notReviews>>


(***************************************************************************)
(* SpecReorder: the handlers of AdminSettingsPanel that reorder the        *)
(* numbered images or change the numbered range.                           *)
(***************************************************************************)
\* .map((n) => Math.floor(Number(n))).filter((n) => Number.isFinite(n) ...):
\* the entries of an order that are numbers (undefined becomes NaN)
FiniteNumbers(items) ==
    LET finite == {i \in 1..Len(items) : items[i].type = "number" /\ "n" \in DOMAIN items[i]}
        F[k \in 0..Len(items)] ==
            IF k = 0 THEN <<>>
            ELSE IF k \in finite THEN Append(F[k - 1], items[k].n)
            ELSE F[k - 1]
    IN  F[Len(items)]

JsNumbers(ns) == [i \in 1..Len(ns) |-> JsNumber(ns[i])]

\* getEffectiveNumberOrder of AdminSettingsPanel
getEffectiveNumberOrder(p) ==
    LET numbered == p.gallery.numbered
        safeStart == SafeStart(numbered.start)
        safeEnd == SafeEnd(numbered.start, numbered.end)
        range == Range(safeStart, safeEnd)
        manual == IF IsArray(numbered.order) THEN numbered.order.items ELSE <<>>
        baseOrdered == Unique(FilterSeq(FiniteNumbers(manual), safeStart..safeEnd))
        baseSet == {baseOrdered[i] : i \in 1..Len(baseOrdered)}
    IN  IF Len(manual) = 0 THEN range
        ELSE baseOrdered \o FilterSeq(range, (safeStart..safeEnd) \ baseSet)

\* the order buildGalleryImageList resolves from a draft
DisplayOrder(p) ==
    IF IsArray(p.gallery.numbered.order)
    THEN LET items == p.gallery.numbered.order.items
             ns == FiniteNumbers(items)
         IN  IF Len(items) > 0 /\ ns = <<>>
             THEN OrderedNumbers([p EXCEPT !.gallery.numbered.order = JsArray(<<0>>)])
             ELSE OrderedNumbers([p EXCEPT !.gallery.numbered.order = JsArray(ns)])
    ELSE OrderedNumbers(p)

\* array[index] for a 0-based index: undefined outside the array
At(array, index) ==
    IF index >= 0 /\ index < Len(array) THEN array[index + 1] ELSE Undefined

\* array[index] = value for a 0-based index: a negative index adds a
\* property and leaves the elements alone; an index past the end extends
\* the array, with undefined for the holes
AssignAt(array, index, value) ==
    IF index < 0 THEN array
    ELSE [i \in 1..Max(Len(array), index + 1) |->
             IF i = index + 1 THEN value
             ELSE IF i <= Len(array) THEN array[i]
             ELSE Undefined]

WithOrder(p, items) == [p EXCEPT !.gallery.numbered.order = JsArray(items)]

\* the updater of moveNumberedOrder
moveNumberedOrder(p, index, direction) ==
    LET current == JsNumbers(getEffectiveNumberOrder(p))
        nextIndex == index + direction
        tmp == At(current, index)
        first == AssignAt(current, index, At(current, nextIndex))
    IN  IF nextIndex < 0 \/ nextIndex >= Len(current) THEN p
        ELSE WithOrder(p, AssignAt(first, nextIndex, tmp))

\* current.splice(fromIndex, 1) and current.splice(toIndex, 0, item)
SpliceMove(array, fromIndex, toIndex) ==
    LET item == array[fromIndex + 1]
        rest == SubSeq(array, 1, fromIndex) \o SubSeq(array, fromIndex + 2, Len(array))
    IN  SubSeq(rest, 1, toIndex) \o <<item>> \o SubSeq(rest, toIndex + 1, Len(rest))

\* the updater of moveNumberedOrderTo
moveNumberedOrderTo(p, fromIndex, toIndex) ==
    LET current == JsNumbers(getEffectiveNumberOrder(p))
    IN  IF fromIndex < 0 \/ fromIndex >= Len(current) THEN p
        ELSE IF toIndex < 0 \/ toIndex >= Len(current) THEN p
        ELSE IF fromIndex = toIndex THEN p
        ELSE WithOrder(p, SpliceMove(current, fromIndex, toIndex))

\* clampInt(value, min, max), for Number(value) an integer or NaN
clampInt(value, min, max) ==
    IF value = NaN THEN min ELSE Max(min, Min(max, value.n))

\* str.replace(".", ""): the first dot removed
RemoveFirstDot(str) ==
    IF \E i \in 1..Len(str) : str[i] = "."
    THEN LET i == CHOOSE k \in 1..Len(str) :
                      str[k] = "." /\ \A j \in 1..(k - 1) : str[j] # "."
         IN  SubSeq(str, 1, i - 1) \o SubSeq(str, i + 1, Len(str))
    ELSE str

\* the drafts the panel may hold: a range with any stored order
ReorderDrafts ==
    {[DEFAULT_SITE_SETTINGS EXCEPT
        !.gallery.numbered.start = JsNumber(a),
        !.gallery.numbered.end = JsNumber(b),
        !.gallery.numbered.order = JsArray(JsNumbers(o))] :
        a \in 0..2, b \in 1..MaxEnd, o \in SeqsUpTo(0..(MaxEnd + 1), MaxOrderLen)}

\* Number(e.target.value) of the Start and End fields
TypedNumbers == {NaN, JsNumber(1000)} \cup {JsNumber(n) : n \in 0..MaxEnd}

ReorderIdle == rDraft = DEFAULT_SITE_SETTINGS /\ rLast = [op |-> "none"]

ReorderInit == rDraft \in ReorderDrafts /\ rLast = [op |-> "none"]

\* the Up and Down buttons
MoveNumberedOrder ==
    /\ rLast.op = "none"
    /\ \E index \in (0 - 1)..Len(getEffectiveNumberOrder(rDraft)), direction \in {0 - 1, 1} :
          /\ rDraft' = moveNumberedOrder(rDraft, index, direction)
          /\ rLast' = [op |-> "move", index |-> index, direction |-> direction,
                       before |-> rDraft]
    /\ UNCHANGED notReorder

\* a drop on a tile of the order
MoveNumberedOrderTo ==
    /\ rLast.op = "none"
    /\ \E fromIndex, toIndex \in (0 - 1)..Len(getEffectiveNumberOrder(rDraft)) :
          /\ rDraft' = moveNumberedOrderTo(rDraft, fromIndex, toIndex)
          /\ rLast' = [op |-> "moveTo", fromIndex |-> fromIndex, toIndex |-> toIndex,
                       before |-> rDraft]
    /\ UNCHANGED notReorder

\* the onChange of the Start field
ChangeStart ==
    /\ rLast.op = "none"
    /\ \E value \in TypedNumbers :
          rDraft' = [rDraft EXCEPT
                        !.gallery.numbered.start = JsNumber(clampInt(value, 1, 999)),
                        !.gallery.numbered.order = JsArray(<<>>)]
    /\ rLast' = [op |-> "start", before |-> rDraft]
    /\ UNCHANGED notReorder

\* the onChange of the End field
ChangeEnd ==
    /\ rLast.op = "none"
    /\ \E value \in TypedNumbers \ {JsNumber(1000)} :
          rDraft' = [rDraft EXCEPT
                        !.gallery.numbered.end = JsNumber(clampInt(value, 1, 999)),
                        !.gallery.numbered.order = JsArray(<<>>)]
    /\ rLast' = [op |-> "end", before |-> rDraft]
    /\ UNCHANGED notReorder

\* the onChange of the Ext field
ChangeExtension ==
    /\ rLast.op = "none"
    /\ \E value \in Extensions :
          rDraft' = [rDraft EXCEPT
                        !.gallery.numbered.extension = RemoveFirstDot(value),
                        !.gallery.numbered.order = JsArray(<<>>)]
    /\ rLast' = [op |-> "extension", before |-> rDraft]
    /\ UNCHANGED notReorder

PageIdle == NailsIdle /\ SpecialsIdle /\ AuthIdle /\ ReviewsIdle /\ ReorderIdle

(***************************************************************************)
(* Specifications                                                          *)
(***************************************************************************)
Init == StoreInit /\ GalleryIdle /\ MergeIdle /\ LoadIdle /\ FeaturedIdle /\ PageIdle

Next ==
    \/ FetchReturnsDoc
    \/ FetchReturnsNull
    \/ InitPushResolves
    \/ Notify
    \/ ListenerError
    \/ RemoteWrite
    \/ PushResolves
    \/ OpenPanel
    \/ EditDraft
    \/ Discard
    \/ Save
    \/ ResetDefaults

Spec == Init /\ [][Next]_vars

InitGallery == StoreIdle /\ GalleryInit /\ MergeIdle /\ LoadIdle /\ FeaturedIdle /\ PageIdle
NextGallery == ResolveGallery
SpecGallery == InitGallery /\ [][NextGallery]_vars

InitMerge == StoreIdle /\ GalleryIdle /\ MergeInit /\ LoadIdle /\ FeaturedIdle /\ PageIdle
NextMerge == RunMerge
SpecMerge == InitMerge /\ [][NextMerge]_vars

InitLoad == StoreIdle /\ GalleryIdle /\ MergeIdle /\ LoadInit /\ FeaturedIdle /\ PageIdle
NextLoad == RunLoad \/ ChangeLoaded
SpecLoad == InitLoad /\ [][NextLoad]_vars

InitFeatured == StoreIdle /\ GalleryIdle /\ MergeIdle /\ LoadIdle /\ FeaturedInit /\ PageIdle
NextFeatured == NormalizeFeatured
SpecFeatured == InitFeatured /\ [][NextFeatured]_vars

InitNails == StoreIdle /\ LibraryIdle /\ NailsInit /\ SpecialsIdle /\ AuthIdle /\ ReviewsIdle /\ ReorderIdle
NextNails == RenderGallery
SpecNails == InitNails /\ [][NextNails]_vars

InitSpecials == StoreIdle /\ LibraryIdle /\ NailsIdle /\ SpecialsInit /\ AuthIdle /\ ReviewsIdle /\ ReorderIdle
NextSpecials == RenderSpecials
SpecSpecials == InitSpecials /\ [][NextSpecials]_vars

InitAuth == StoreIdle /\ LibraryIdle /\ NailsIdle /\ SpecialsIdle /\ AuthInit /\ ReviewsIdle /\ ReorderIdle
NextAuth ==
    \/ AuthStateFires
    \/ MeSignOutReturns
    \/ Navigate
    \/ GuardEffect
    \/ SubmitLogin
    \/ SignInResolves
    \/ SignInRejects
    \/ LoginSignOutReturns
    \/ ClickLogout
    \/ LogoutReturns
SpecAuth == InitAuth /\ [][NextAuth]_vars

InitReviews == StoreIdle /\ LibraryIdle /\ NailsIdle /\ SpecialsIdle /\ AuthIdle /\ ReviewsInit /\ ReorderIdle
NextReviews ==
    \/ SubmitReview
    \/ AddReviewResolves
    \/ AddReviewRejects
    \/ HideThanks
SpecReviews == InitReviews /\ [][NextReviews]_vars

InitReorder == StoreIdle /\ LibraryIdle /\ NailsIdle /\ SpecialsIdle /\ AuthIdle /\ ReviewsIdle /\ ReorderInit
NextReorder ==
    \/ MoveNumberedOrder
    \/ MoveNumberedOrderTo
    \/ ChangeStart
    \/ ChangeEnd
    \/ ChangeExtension
SpecReorder == InitReorder /\ [][NextReorder]_vars

InitProvider == Init
NextProvider ==
    \/ FetchReturnsDoc
    \/ FetchReturnsNull
    \/ InitPushResolves
    \/ Notify
    \/ ListenerError
    \/ RemoteWrite
    \/ PushResolves
    \/ SetSettings
    \/ UpdateSettings
    \/ ResetSettings
SpecProvider == InitProvider /\ [][NextProvider]_vars

InitTeardown == Init
NextTeardown ==
    \/ mounted /\ FetchReturnsDoc
    \/ FetchReturnsNull
    \/ mounted /\ InitPushResolves
    \/ mounted /\ Notify
    \/ ListenerError
    \/ RemoteWrite
    \/ Teardown
    \/ FetchReturnsDocUnmounted
    \/ InitPushResolvesUnmounted
    \/ NotifyUnmounted
SpecTeardown == InitTeardown /\ [][NextTeardown]_vars

(***************************************************************************)
(* Claims                                                                  *)
(***************************************************************************)
\* the numbered inputs and the result of the resolution under check
gNumbered == gIn.gallery.numbered
gIsRange == gNumbered.start.type = "number" /\ "n" \in DOMAIN gNumbered.start
            /\ gNumbered.end.type = "number" /\ "n" \in DOMAIN gNumbered.end
gLo == SafeStart(gNumbered.start)
gHi == SafeEnd(gNumbered.start, gNumbered.end)
gOrder == gNumbered.order.items
\* entry url names image n: it starts with "{folder}/{n}."
gIsImage(url, n) ==
    IsPrefix(gNumbered.folder \o <<"/">> \o NumberToString(n) \o <<".">>, url)
\* the places of image n in the result, and the first place of n in order
gPlaces(n) == {i \in 1..Len(gOut.value) : gIsImage(gOut.value[i], n)}
gFirst(n) == CHOOSE i \in 1..Len(gOrder) :
                /\ gOrder[i] = n
                /\ \A j \in 1..(i - 1) : gOrder[j] # n
gListed(n) == \E i \in 1..Len(gOrder) : gOrder[i] = n

\* C1: numbered mode with a non-empty manual order: the result has
\* safeEnd - safeStart + 1 entries (end - start + 1 when 1 <= start <= end),
\* every entry is an image of the range, every image of the range appears
\* exactly once, the images the order lists come first in the order of their
\* first occurrence, and the others follow in ascending order; out-of-range
\* and repeated entries of the order leave no trace.
C1_ManualOrderIsPermutation ==
    (gOut.done /\ gIn.gallery.mode = "numbered" /\ Len(gOrder) > 0) =>
        /\ Len(gOut.value) = gHi - gLo + 1
        /\ (gIsRange /\ 1 <= gNumbered.start.n
                     /\ gNumbered.start.n <= gNumbered.end.n) =>
               Len(gOut.value) = gNumbered.end.n - gNumbered.start.n + 1
        /\ \A i \in 1..Len(gOut.value) : \E n \in gLo..gHi : gIsImage(gOut.value[i], n)
        /\ \A n \in gLo..gHi : Cardinality(gPlaces(n)) = 1
        /\ \A a, b \in gLo..gHi :
            LET pa == CHOOSE i \in gPlaces(a) : TRUE
                pb == CHOOSE i \in gPlaces(b) : TRUE
            IN  /\ (gListed(a) /\ gListed(b) /\ gFirst(a) < gFirst(b)) => pa < pb
                /\ (gListed(a) /\ ~gListed(b)) => pa < pb
                /\ (~gListed(a) /\ ~gListed(b) /\ a < b) => pa < pb

\* C1 witness: a resolved order with an out-of-range entry followed by a
\* repeated in-range entry
C1_Witness ==
    /\ gOut.done
    /\ Len(gOrder) = 3
    /\ gOrder[1] > gHi
    /\ gOrder[2] = gOrder[3]
    /\ gOrder[2] \in gLo..gHi
    /\ gHi - gLo >= 2
    /\ Len(gOut.value) = gHi - gLo + 1

\* the leaf fields a document supplies
Supplied(doc) == {p \in Leaves : HasPath(doc, p)}
WellShaped(doc) == \A p \in Supplied(doc) : IsWellShaped(p, Get(doc, p))
\* every object of the schema is there with exactly the schema's keys
SchemaComplete(s) ==
    /\ DOMAIN s = DOMAIN DEFAULT_SITE_SETTINGS
    /\ \A p \in ObjectPaths :
        (DOMAIN Get(DEFAULT_SITE_SETTINGS, p)) \subseteq (DOMAIN Get(s, p))

\* C2: mergeSettings of a partial document whose supplied values have the
\* declared types is a complete SiteSettings: each supplied field has the
\* incoming value and every other field, in every section, the default.
C2_MergeIsFieldByField ==
    (mOut.done /\ mIn.some /\ WellShaped(mIn.doc)) =>
        /\ SchemaComplete(mOut.value)
        /\ \A p \in Leaves :
            Get(mOut.value, p) =
                IF p \in Supplied(mIn.doc) THEN Get(mIn.doc, p)
                ELSE Get(DEFAULT_SITE_SETTINGS, p)

\* C2 witness: { contact: { email: "a@b.com" } } merged
C2_Witness ==
    /\ mOut.done
    /\ mIn = Some([contact |-> [email |-> "a@b.com"]])
    /\ mOut.value.contact.email = "a@b.com"
    /\ mOut.value.contact.hours = DEFAULT_SITE_SETTINGS.contact.hours
    /\ mOut.value.gallery = DEFAULT_SITE_SETTINGS.gallery

\* C3: a notification that carries a document d leaves the canonical value
\* equal to mergeSettings(d) and the local cache holding that merged value.
C3_NotifyReplacesCanonicalAndCache ==
    (last.op = "notify") =>
        /\ settings = mergeSettings(last.data)
        /\ cache = JsonStringify(mergeSettings(last.data))

\* C3 witness: a pushed partial document (gallery and promotions only)
\* replaced a different canonical value
C3_Witness ==
    /\ last.op = "notify"
    /\ last.changed
    /\ last.data = Some(RemoteGallery)
    /\ settings.gallery.assetVersion = JsNumber(5)
    /\ settings.contact = DEFAULT_SITE_SETTINGS.contact
    /\ cache = JsonStringify(settings)

FailureOps ==
    {"fetchFailed", "initPushFailed", "pushFailed", "listenerError",
     "notifyError", "notifyNull"}

\* C4: save(next) makes next the canonical value and the cached value; a
\* failed push changes neither, nor the remote document, is dropped from
\* the writes in flight (no retry), and raises nothing; while the save is
\* the last write, canonical and cache are still next after the failure.
C4_SaveIsLocalFirstAndFailureSwallowed ==
    /\ [][/\ (last'.op = "save") =>
                /\ last'.data = Some(draft)
                /\ settings' = draft
                /\ cache' = JsonStringify(draft)
          /\ (last'.op = "pushFailed") =>
                /\ UNCHANGED <<settings, cache, remote>>
                /\ pending' = Tail(pending)
                /\ ~raised']_vars
    /\ []((last.op = "pushFailed" /\ landed.source = "local") =>
            /\ settings = landed.data.doc
            /\ cache = JsonStringify(landed.data.doc))

\* C4 witness: the push of a saved edit has failed
C4_Witness ==
    /\ last.op = "pushFailed"
    /\ landed.source = "local"
    /\ settings.contact.email = TypedEmail
    /\ cache = JsonStringify(settings)
    /\ pending = <<>>
    /\ ~raised

\* C5: the canonical value is the value of the write that landed last: the
\* saved value as it was given, or mergeSettings of the pushed document,
\* whatever the other one had written before.
C5_LastWriteWins ==
    /\ (landed.source = "local") => settings = landed.data.doc
    /\ (landed.source = "remote") => settings = mergeSettings(landed.data)

\* C5 witness: a notification landed while a save's write was in flight,
\* and the canonical value is the notification's, not the saved one
C5_Witness ==
    /\ last.op = "notify"
    /\ last.changed
    /\ pending # <<>>
    /\ Head(pending).contact.email = TypedEmail
    /\ settings = mergeSettings(last.data)
    /\ settings.contact.email # TypedEmail

\* C6: with the panel open, a step changes the draft only if it is an edit,
\* a Discard (the draft becomes the canonical value) or a Reset; a remote
\* push leaves the draft as it is; an edit changes neither the canonical
\* value, nor the cache, nor the remote document, nor the writes in flight.
C6_DraftIsolated ==
    [][panelOpen =>
        /\ (draft' # draft) => last'.op \in {"edit", "discard", "reset"}
        /\ (last'.op \in {"notify", "notifyNull", "notifyError"}) => draft' = draft
        /\ (last'.op = "discard") => draft' = settings
        /\ (last'.op = "edit") => UNCHANGED <<settings, cache, remote, pending>>]_vars

\* C6 witness: a remote push changed the canonical value under an unsaved
\* edit, and the edit is still in the draft
C6_Witness ==
    /\ panelOpen
    /\ last.op = "notify"
    /\ last.changed
    /\ draft.contact.email = TypedEmail
    /\ settings.contact.email # TypedEmail
    /\ draft # settings

\* C7: init pushes the local document only when the remote document is
\* absent; a remote document that exists is not written over by init.
C7_InitPushOnlyWhenAbsent ==
    [][/\ (pc = "fetching" /\ pc' = "pushing") => ~remote.some
       /\ (pc = "pushing" /\ pc' = "done" /\ remote.some) => remote' = remote]_vars

\* C8: when the initial fetch returns a document d, the canonical value is
\* mergeSettings(d) and the cache holds that merged value.
C8_FetchedDocReplacesCached ==
    (last.op = "fetchDoc") =>
        /\ settings = mergeSettings(last.data)
        /\ cache = JsonStringify(mergeSettings(last.data))

\* C8 witness: the fetched document replaced the value loaded at start-up
C8_Witness ==
    /\ last.op = "fetchDoc"
    /\ last.changed
    /\ last.data = Some(RemoteOnlyEmail)
    /\ settings.contact.email = "a@b.com"
    /\ settings.contact.hours = DEFAULT_SITE_SETTINGS.contact.hours
    /\ cache = JsonStringify(settings)

\* C9: nothing is ever raised to the UI, the canonical value is always a
\* complete SiteSettings, and a remote failure (fetch error, push error,
\* listener error, notification without a document) changes neither the
\* canonical value nor the cache.
C9_RemoteFailuresAreInvisible ==
    /\ [](SchemaComplete(settings) /\ ~raised)
    /\ [][(last'.op \in FailureOps) => UNCHANGED <<settings, cache>>]_vars

\* C9 witness: the listener failed after a save, and the saved value is
\* still canonical and cached
C9_Witness ==
    /\ last.op = "notifyError"
    /\ landed.source = "local"
    /\ settings = landed.data.doc
    /\ cache = JsonStringify(settings)
    /\ SchemaComplete(settings)
    /\ ~raised

\* C10: the connectivity flag is set, and a write is put in flight, only
\* after some remote operation has succeeded.
C10_PushOnlyIfEstablished ==
    /\ firestoreAvailable => established
    /\ (pending # <<>>) => established

\* C11: load() returns a complete SiteSettings for every cache entry; for a
\* missing, empty or unparseable entry it has the content of the defaults
\* and no later change made to it changes DEFAULT_SITE_SETTINGS; for an
\* entry that parses it is the parsed document merged onto the defaults.
C11_LoadFallsBackToFreshDefaults ==
    lOut.done =>
        /\ SchemaComplete(lOut.loaded)
        /\ (lIn.kind \in {"absent", "empty", "garbage"}) =>
               /\ lOut.loaded = DEFAULT_SITE_SETTINGS
               /\ defaults = DEFAULT_SITE_SETTINGS
        /\ (lIn.kind = "null") => lOut.loaded = DEFAULT_SITE_SETTINGS
        /\ (lIn.kind = "json") => lOut.loaded = mergeSettings(Some(lIn.value))

\* C11 witness: the entry was not JSON, the caller pushed onto an array of
\* what load returned, and the defaults are as compiled
C11_Witness ==
    /\ lIn = Garbage
    /\ lOut.done
    /\ lOut.changed
    /\ Len(lOut.now.contact.addressLines.items)
          = Len(lOut.loaded.contact.addressLines.items) + 1
    /\ defaults = DEFAULT_SITE_SETTINGS

\* C12: in the result of mergeSettings every array-typed field whose
\* incoming value is not an array has the default of that field, and
\* gallery.assetVersion is the incoming value when that is a number and 1
\* otherwise.
C12_IllShapedValuesFallBack ==
    (mOut.done /\ mIn.some) =>
        /\ \A p \in ArrayLeaves :
            (HasPath(mIn.doc, p) /\ ~IsArray(Get(mIn.doc, p))) =>
                Get(mOut.value, p) = Get(DEFAULT_SITE_SETTINGS, p)
        /\ mOut.value.gallery.assetVersion =
               IF /\ HasPath(mIn.doc, <<"gallery", "assetVersion">>)
                  /\ IsNumber(mIn.doc.gallery.assetVersion)
               THEN mIn.doc.gallery.assetVersion
               ELSE JsNumber(1)

\* C13: numbered mode, no manual order, 1 <= start <= end: the result has
\* end - start + 1 entries and its i-th entry is image start + i - 1.
C13_EmptyOrderIsAscendingRange ==
    (/\ gOut.done /\ gIn.gallery.mode = "numbered" /\ gOrder = <<>>
     /\ gIsRange /\ 1 <= gNumbered.start.n
     /\ gNumbered.start.n <= gNumbered.end.n) =>
        /\ Len(gOut.value) = gNumbered.end.n - gNumbered.start.n + 1
        /\ \A i \in 1..Len(gOut.value) :
            gIsImage(gOut.value[i], gNumbered.start.n + i - 1)

\* C13 witness: start 2, end 4, no order: images 2, 3, 4
C13_Witness ==
    /\ gOut.done
    /\ gIn.gallery.mode = "numbered"
    /\ gNumbered.start = JsNumber(2)
    /\ gNumbered.end = JsNumber(4)
    /\ gOrder = <<>>
    /\ Len(gOut.value) = 3
    /\ gIsImage(gOut.value[1], 2)
    /\ gIsImage(gOut.value[3], 4)

\* "{folder}/{n}.{extension}?v={version}"
cTemplate(folder, n, extension, version) ==
    folder \o <<"/">> \o NumberToString(n) \o <<".">> \o extension
           \o <<"?", "v", "=">> \o NumberToString(version)

\* the scenario of the claim: folder "/gallery", extension "jpeg", start 1,
\* end 3, assetVersion 1
cScenario(order) ==
    [DEFAULT_SITE_SETTINGS EXCEPT
        !.gallery.numbered.end = JsNumber(3),
        !.gallery.numbered.order = JsArray(order)]
cGallery(n) ==
    <<"/", "g", "a", "l", "l", "e", "r", "y", "/", n,
      ".", "j", "p", "e", "g", "?", "v", "=", "1">>
cScenarioHolds ==
    /\ (gOut.done /\ gIn = cScenario(<<>>)) =>
           gOut.value = <<cGallery("1"), cGallery("2"), cGallery("3")>>
    /\ (gOut.done /\ gIn = cScenario(<<3, 1>>)) =>
           gOut.value = <<cGallery("3"), cGallery("1"), cGallery("2")>>

\* C14 as stated: every entry of a numbered result is
\* "{folder}/{n}.{extension}?v={assetVersion}" for a number n of the range,
\* with the configured folder, extension and version; the two scenarios.
C14_EntryIsFolderNumberExtensionVersion ==
    /\ (gOut.done /\ gIn.gallery.mode = "numbered") =>
           \A i \in 1..Len(gOut.value) : \E n \in gLo..gHi :
               gOut.value[i] = cTemplate(gNumbered.folder, n, gNumbered.extension,
                                         gIn.gallery.assetVersion.n)
    /\ cScenarioHolds

\* the extension the entries carry: the configured one without its leading
\* dot, "jpeg" when none is configured
cExtension ==
    IF gNumbered.extension = <<>> THEN <<"j", "p", "e", "g">>
    ELSE IF Head(gNumbered.extension) = "." THEN Tail(gNumbered.extension)
    ELSE gNumbered.extension

\* C14 amended: the same with the extension taken without its leading dot,
\* and "jpeg" when the configured extension is empty.
C14_EntryIsFolderNumberNormalExtensionVersion ==
    /\ (gOut.done /\ gIn.gallery.mode = "numbered") =>
           \A i \in 1..Len(gOut.value) : \E n \in gLo..gHi :
               gOut.value[i] = cTemplate(gNumbered.folder, n, cExtension,
                                         gIn.gallery.assetVersion.n)
    /\ cScenarioHolds

\* C14 witness: folder "/img", extension ".png", version 12, order [3, 1]:
\* the first entry is /img/3.png?v=12
C14_Witness ==
    /\ gOut.done
    /\ gIn.gallery.mode = "numbered"
    /\ gNumbered.extension = <<".", "p", "n", "g">>
    /\ gOrder = <<3, 1>>
    /\ Len(gOut.value) = 3
    /\ gOut.value[1] = <<"/", "i", "m", "g", "/", "3", ".", "p", "n", "g",
                         "?", "v", "=", "1", "2">>

\* x or fallback, as the claim reads it: the fallback for a missing bound,
\* for NaN and for 0
cOr(x, fallback) ==
    IF x \in {Undefined, NaN, JsNumber(0)} THEN fallback ELSE x.n
cSafeStart == IF cOr(gNumbered.start, 1) >= 1 THEN cOr(gNumbered.start, 1) ELSE 1
cSafeEnd ==
    IF cOr(gNumbered.end, cSafeStart) >= cSafeStart
    THEN cOr(gNumbered.end, cSafeStart)
    ELSE cSafeStart

\* C15: whatever start and end are (missing, NaN, 0, negative, end below
\* start), a numbered result has safeEnd - safeStart + 1 >= 1 entries, with
\* safeStart = max(1, start or 1) and safeEnd = max(safeStart, end or
\* safeStart), and every entry is an image numbered safeStart..safeEnd, so
\* none below 1.
C15_MalformedBoundsAreClamped ==
    (gOut.done /\ gIn.gallery.mode = "numbered") =>
        /\ cSafeStart >= 1
        /\ Len(gOut.value) = cSafeEnd - cSafeStart + 1
        /\ Len(gOut.value) >= 1
        /\ \A i \in 1..Len(gOut.value) :
            \E n \in cSafeStart..cSafeEnd : gIsImage(gOut.value[i], n)

\* C15 witness: start NaN and end -2 resolve to the single image 1
C15_Witness ==
    /\ gOut.done
    /\ gNumbered.start = NaN
    /\ gNumbered.end = JsNumber(0 - 2)
    /\ gOrder = <<>>
    /\ Len(gOut.value) = 1
    /\ gIsImage(gOut.value[1], 1)

cNonEmpty(url) == url # <<>>

\* C16: a custom result is the non-empty entries of customImages, in their
\* order, each as stored, repeated ones kept, whatever the numbered
\* settings and assetVersion are.
C16_CustomListIsStoredEntries ==
    (gOut.done /\ gIn.gallery.mode = "custom") =>
        gOut.value = SelectSeq(gIn.gallery.customImages.items, cNonEmpty)

\* C16 witness: ["", "/a.png", "/a.png"] under version 12 and range 2..4
\* gives ["/a.png", "/a.png"]
C16_Witness ==
    /\ gOut.done
    /\ gIn.gallery.mode = "custom"
    /\ gIn.gallery.assetVersion = JsNumber(12)
    /\ gNumbered.start = JsNumber(2)
    /\ gIn.gallery.customImages.items =
           <<<<>>, <<"/", "a", ".", "p", "n", "g">>,
             <<"/", "a", ".", "p", "n", "g">>>>
    /\ gOut.value = <<<<"/", "a", ".", "p", "n", "g">>,
                      <<"/", "a", ".", "p", "n", "g">>>>

\* the entry under normalization, trimmed, and the settings it is
\* normalized under
fEntry == Trim(fIn.input)
fNumbered == fIn.settings.gallery.numbered
fFolder == IF fNumbered.folder = <<>> THEN <<"/", "g", "a", "l", "l", "e", "r", "y">> ELSE fNumbered.folder
fExtension ==
    IF fNumbered.extension = <<>> THEN <<"j", "p", "e", "g">>
    ELSE IF Head(fNumbered.extension) = "." THEN Tail(fNumbered.extension)
    ELSE fNumbered.extension
fVersion == NumberToString(fIn.settings.gallery.assetVersion.n)
\* url starts with "/gallery/" or with the configured folder path
fIsInternal(url) ==
    StartsWith(url, <<"/", "g", "a", "l", "l", "e", "r", "y", "/">>) \/ StartsWith(url, fFolder \o <<"/">>)

\* the places of the v parameters of a query string, and of those whose
\* value starts with a digit
fVParams(q) ==
    {i \in 1..(Len(q) - 2) :
        q[i] \in {"?", "&"} /\ q[i + 1] = "v" /\ q[i + 2] = "="}
fVDigitParams(q) ==
    {i \in fVParams(q) : i + 3 <= Len(q) /\ IsDigit(q[i + 3])}
\* q with the digits of its first v=<digits> replaced by version
fReplaced(q, version) ==
    LET i == CHOOSE m \in fVDigitParams(q) : \A n \in fVDigitParams(q) : m <= n
        k == CHOOSE c \in 1..(Len(q) - i - 2) :
                /\ \A d \in (i + 3)..(i + 2 + c) : IsDigit(q[d])
                /\ (i + 2 + c = Len(q) \/ ~IsDigit(q[i + 3 + c]))
    IN  SubSeq(q, 1, i + 2) \o version \o SubSeq(q, i + 3 + k, Len(q))

\* C17: when the normalized path is internal, a query string that has a
\* v=<digits> parameter comes out with the digits of the first one replaced
\* by assetVersion and with no parameter added; a query string without a v
\* parameter comes out with "?v=N" (no query string) or "&v=N" appended; in
\* both cases a URL that came with at most one v parameter leaves with
\* exactly one.
C17_VersionReplacedOrAppendedOnce ==
    (fOut.done /\ fEntry # <<>> /\ fIsInternal(PathOnly(fOut.value))) =>
        LET qIn == QueryOf(fEntry)
            qOut == QueryOf(fOut.value)
        IN  /\ (fVDigitParams(qIn) # {}) =>
                   /\ qOut = fReplaced(qIn, fVersion)
                   /\ Cardinality(fVParams(qOut)) = Cardinality(fVParams(qIn))
            /\ (fVParams(qIn) = {}) =>
                   qOut = (IF qIn = <<>> THEN <<"?", "v", "=">> ELSE qIn \o <<"&", "v", "=">>)
                          \o fVersion
            /\ (fVDigitParams(qIn) # {} \/ fVParams(qIn) = {}) =>
                   (Cardinality(fVParams(qIn)) <= 1 =>
                        Cardinality(fVParams(qOut)) = 1)

\* C17 witness: "/gallery/a.png?v=3" under assetVersion 5 is
\* "/gallery/a.png?v=5"
C17_Witness ==
    /\ fOut.done
    /\ fIn.input = <<"/", "g", "a", "l", "l", "e", "r", "y", "/", "a", ".", "p", "n", "g", "?", "v", "=", "3">>
    /\ fIn.settings.gallery.assetVersion = JsNumber(5)
    /\ fOut.value = <<"/", "g", "a", "l", "l", "e", "r", "y", "/", "a", ".", "p", "n", "g", "?", "v", "=", "5">>

\* C18 as stated: an entry of digits d is
\* "{numberedFolder}/{d}.{numberedExtension}?v={assetVersion}", whatever the
\* configured folder and extension.
C18_DigitsAreFolderShorthand ==
    (fOut.done /\ AllDigits(fEntry)) =>
        fOut.value = fNumbered.folder \o <<"/">> \o fEntry \o <<".">>
                     \o fNumbered.extension \o <<"?", "v", "=">> \o fVersion

\* the folder as a rooted path: an http(s) URL or a path from "/"
fRooted == IsAbsoluteHttp(fFolder) \/ StartsWith(fFolder, <<"/">>)

\* C18 amended: an entry of digits d is "{F}/{d}.{E}": F the configured
\* folder ("/gallery" when empty), with "/" put before it when it is neither
\* an http(s) URL nor a path from "/"; E the configured extension without
\* its leading dot ("jpeg" when empty); "?v={assetVersion}" follows when F
\* is an http(s) URL, a path from "/", or "gallery" or under it, and nothing
\* follows otherwise.
C18_DigitsAreNormalizedFolderShorthand ==
    (fOut.done /\ AllDigits(fEntry)) =>
        fOut.value =
            (IF fRooted THEN <<>> ELSE <<"/">>)
            \o fFolder \o <<"/">> \o fEntry \o <<".">> \o fExtension
            \o (IF fRooted \/ StartsWith(fFolder \o <<"/">>, <<"g", "a", "l", "l", "e", "r", "y", "/">>)
                THEN <<"?", "v", "=">> \o fVersion
                ELSE <<>>)

\* C18 witness: "12" under folder "/img", extension ".png", version 12 is
\* "/img/12.png?v=12"
C18_Witness ==
    /\ fOut.done
    /\ fIn.input = <<"1", "2">>
    /\ fNumbered.folder = <<"/", "i", "m", "g">>
    /\ fNumbered.extension = <<".", "p", "n", "g">>
    /\ fOut.value = <<"/", "i", "m", "g", "/", "1", "2", ".", "p", "n", "g", "?", "v", "=", "1", "2">>

\* the entry as an internal path, before the extension
fRootedEntry ==
    IF ~Includes(fEntry, "/") THEN <<"/", "g", "a", "l", "l", "e", "r", "y", "/">> \o fEntry
    ELSE IF StartsWith(fEntry, <<"/">>) THEN fEntry
    ELSE <<"/">> \o fEntry
fLastSegment == LastSegment(PathOnly(fRootedEntry))
\* the path the claim describes, with the extension written as extension
fPathWith(extension) ==
    IF fLastSegment # <<>> /\ ~Includes(fLastSegment, ".")
    THEN PathOnly(fRootedEntry) \o <<".">> \o extension
    ELSE PathOnly(fRootedEntry)
\* an entry that is neither empty, nor digits, nor an http(s) URL
fIsRelative ==
    fOut.done /\ fEntry # <<>> /\ ~AllDigits(fEntry) /\ ~IsAbsoluteHttp(fEntry)
\* the scenario: "nails1" under the default folder and extension
fScenarioHolds ==
    (/\ fOut.done /\ fEntry = <<"n", "a", "i", "l", "s", "1">>
     /\ fNumbered.folder = <<"/", "g", "a", "l", "l", "e", "r", "y">> /\ fNumbered.extension = <<"j", "p", "e", "g">>) =>
        fOut.value = <<"/", "g", "a", "l", "l", "e", "r", "y", "/", "n", "a", "i", "l", "s", "1", ".", "j", "p", "e", "g", "?", "v", "=">> \o fVersion

\* C19 as stated: the result for an entry that is not an http(s) URL starts
\* with "/"; its path is "/gallery/{entry}" for an entry without a slash and
\* the entry with a leading slash otherwise, with ".{numberedExtension}"
\* appended when the final segment has no dot; the query string of the entry
\* follows the path.
C19_RelativeEntryBecomesInternalPath ==
    /\ fIsRelative =>
        /\ StartsWith(fOut.value, <<"/">>)
        /\ PathOnly(fOut.value) = fPathWith(fNumbered.extension)
        /\ (fVDigitParams(QueryOf(fEntry)) = {}) =>
               StartsWith(QueryOf(fOut.value), QueryOf(fEntry))
    /\ fScenarioHolds

\* C19 amended: the same, the appended extension being the configured one
\* without its leading dot, "jpeg" when the configured extension is empty.
C19_RelativeEntryBecomesNormalizedInternalPath ==
    /\ fIsRelative =>
        /\ StartsWith(fOut.value, <<"/">>)
        /\ PathOnly(fOut.value) = fPathWith(fExtension)
        /\ (fVDigitParams(QueryOf(fEntry)) = {}) =>
               StartsWith(QueryOf(fOut.value), QueryOf(fEntry))
    /\ fScenarioHolds

\* C19 witness: "img/nails1?a=1" under extension ".png" and folder
\* "/gallery" is "/img/nails1.png?a=1"
C19_Witness ==
    /\ fOut.done
    /\ fIn.input = <<"i", "m", "g", "/", "n", "a", "i", "l", "s", "1", "?", "a", "=", "1">>
    /\ fNumbered.extension = <<".", "p", "n", "g">>
    /\ fNumbered.folder = <<"/", "g", "a", "l", "l", "e", "r", "y">>
    /\ fOut.value = <<"/", "i", "m", "g", "/", "n", "a", "i", "l", "s", "1", ".", "p", "n", "g", "?", "a", "=", "1">>

\* C20: an http(s) URL that starts neither with "/gallery/" nor with the
\* configured folder path is returned as it is (the white space around it
\* apart): same path, no extension, no version parameter.
C20_ExternalUrlUnchanged ==
    (fOut.done /\ IsAbsoluteHttp(fEntry) /\ ~fIsInternal(fEntry)) =>
        fOut.value = fEntry

\* C20 witness: "https://x/nails1?v=3" under folder "/gallery" and version 5
\* is returned as it is
C20_Witness ==
    /\ fOut.done
    /\ fIn.input = <<"h", "t", "t", "p", "s", ":", "/", "/", "x", "/", "n", "a", "i", "l", "s", "1", "?", "v", "=", "3">>
    /\ fNumbered.folder = <<"/", "g", "a", "l", "l", "e", "r", "y">>
    /\ fIn.settings.gallery.assetVersion = JsNumber(5)
    /\ fOut.value = fIn.input

\* ---- C21 ----
nRaw == nIn.gallery.featuredNails.imageUrls.items
nNorm(i) == normalizeFeaturedUrl(nIn, nRaw[i])
nFirst(u) ==
    CHOOSE i \in 1..Len(nRaw) :
        nNorm(i) = u /\ \A j \in 1..(i - 1) : nNorm(j) # u

\* C21: the featured image list holds the normalized entries of
\* featuredNails.imageUrls that are not empty: no empty string, no string
\* twice, every normalized non-empty entry once, each at the place of the
\* first raw entry that normalizes to it.
C21_FeaturedListIsNormalizedDeduplicated ==
    nOut.done =>
        LET out == nOut.value
        IN  /\ \A i \in 1..Len(out) : out[i] # <<>>
            /\ \A i, j \in 1..Len(out) : out[i] = out[j] => i = j
            /\ {out[i] : i \in 1..Len(out)}
                   = {nNorm(i) : i \in 1..Len(nRaw)} \ {<<>>}
            /\ \A i, j \in 1..Len(out) : i < j => nFirst(out[i]) < nFirst(out[j])

\* a blank entry, "12" and "/gallery/12.jpeg" gave one entry
C21_Witness ==
    /\ nOut.done
    /\ nRaw = <<<<" ">>, <<"1", "2">>, <<"/", "g", "a", "l", "l", "e", "r", "y", "/", "1", "2", ".", "j", "p", "e", "g">>>>
    /\ nOut.value = <<<<"/", "g", "a", "l", "l", "e", "r", "y", "/", "1", "2", ".", "j", "p", "e", "g", "?", "v", "=", "1">>>>

\* ---- C22 ----
pStored == pIn.promotions.items
pShown == pOut.value
pPlace(x) == CHOOSE i \in 1..Len(pStored) : pStored[i] = x
pHasTitle(x) == x # NoPromotion /\ \E i \in 1..Len(x.title) : x.title[i] # " "
pIsDate(x) == x # NoPromotion /\ x.validUntil \notin {NoDate, BadDate}
pPast(x) == pIsDate(x) /\ x.validUntil.t < pIn.now
pCurrent(x) ==
    /\ x # NoPromotion
    /\ x.validUntil = NoDate \/ (pIsDate(x) /\ x.validUntil.t > pIn.now)
pNothingWrongShown ==
    /\ \A i \in 1..Len(pShown) :
          /\ \E k \in 1..Len(pStored) : pStored[k] = pShown[i]
          /\ pHasTitle(pShown[i])
          /\ ~pPast(pShown[i])
    /\ \A i, j \in 1..Len(pShown) : i < j => pPlace(pShown[i]) < pPlace(pShown[j])

aSameAddress(a, b) == LowerCase(Trim(a)) = LowerCase(Trim(b))
aOtherSession(u) == u.user /\ ~aSameAddress(EmailOf(u), ADMIN_EMAIL)

C24_FailuresShowOneMessage ==
    (authLast.op = "login" /\ ~authLast.ok /\ remembered.some) =>
        authLast.message = remembered.doc.shown

\* ---- C30 ----
\* C30: the dashboard is rendered only when isAuthenticated is true and
\* the start-up check has completed; with page admin-dashboard and
\* isAuthenticated false the login or the loading view is rendered; once
\* logout has completed isAuthenticated is false until a login succeeds.
C30_DashboardOnlyWhenAuthenticated ==
    /\ Rendered = "dashboard" => isAuthenticated /\ me = "done"
    /\ (currentPage = "admin-dashboard" /\ ~isAuthenticated) =>
          Rendered \in {"login", "loading"}
    /\ authLast.op = "logout" => ~isAuthenticated

\* the page is admin-dashboard after a failed login: the login view
C30_Witness ==
    /\ currentPage = "admin-dashboard"
    /\ authLast.op = "login" /\ ~authLast.ok
    /\ Rendered = "login"

\* ---- C25 ----
rBlank(str) == \A i \in 1..Len(str) : str[i] = " "
rTrimmedLen(str) ==
    IF rBlank(str) THEN 0
    ELSE LET first == CHOOSE i \in 1..Len(str) :
                          str[i] # " " /\ \A j \in 1..(i - 1) : str[j] = " "
             final == CHOOSE i \in 1..Len(str) :
                          str[i] # " " /\ \A j \in (i + 1)..Len(str) : str[j] = " "
         IN  final - first + 1
rFieldsPass(form) ==
    /\ rTrimmedLen(form.name) >= 2
    /\ ~rBlank(form.service)
    /\ rTrimmedLen(form.text) >= 10
rStored ==
    \A d \in reviewDocs \cup {adding[i] : i \in 1..Len(adding)} :
        Len(d.text) <= 500 /\ d.rating \in 1..5

\* C25 as stated: handleSubmit issues the add-review call only when the
\* honeypot is empty, the trimmed name has 2 characters or more, a service is
\* selected and the trimmed text has 10 characters or more; when one of these
\* fails a message is set and no call is made; every persisted review has
\* a text of at most 500 characters and a rating in 1..5.
C25_NothingPersistedUnlessValid ==
    /\ revLast.op = "submit" =>
          LET valid == revLast.form.website = <<>> /\ rFieldsPass(revLast.form)
          IN  /\ revLast.issued => valid
              /\ ~valid => (revLast.message # "" /\ ~revLast.issued)
    /\ rStored

\* C25, amended: the call is issued only when the honeypot is empty after
\* trimming and the three fields pass; when a field fails and the honeypot is
\* blank a message is set and no call is made; when the honeypot is filled
\* no call is made and no message is set; every persisted review has a text
\* of at most 500 characters and a rating in 1..5.
C25_NothingPersistedUnlessValidFilledHoneypotSilent ==
    /\ revLast.op = "submit" =>
          LET bot == ~rBlank(revLast.form.website)
              valid == ~bot /\ rFieldsPass(revLast.form)
          IN  /\ revLast.issued => valid
              /\ (~valid /\ ~bot) => (revLast.message # "" /\ ~revLast.issued)
              /\ bot => (revLast.message = "" /\ ~revLast.issued)
    /\ rStored

\* a review of 501 characters was persisted with 500
C25_Witness ==
    /\ revLast.op = "submit"
    /\ rTrimmedLen(revLast.form.text) = 501
    /\ \E d \in reviewDocs : Len(d.text) = 500 /\ d.rating = revLast.form.rating

\* ---- C29 ----
oBefore == rLast.before
oLo(p) ==
    IF cOr(p.gallery.numbered.start, 1) >= 1 THEN cOr(p.gallery.numbered.start, 1) ELSE 1
oHi(p) ==
    IF cOr(p.gallery.numbered.end, oLo(p)) >= oLo(p)
    THEN cOr(p.gallery.numbered.end, oLo(p))
    ELSE oLo(p)
oItems(p) == p.gallery.numbered.order.items
oIsPermutation(p) ==
    /\ Len(oItems(p)) = oHi(p) - oLo(p) + 1
    /\ \A n \in oLo(p)..oHi(p) : \E i \in 1..Len(oItems(p)) : oItems(p)[i] = JsNumber(n)
\* seq with the element at 0-based place from taken out and put in at place to
oMoved(seq, from, to) ==
    LET rest == [i \in 1..(Len(seq) - 1) |-> IF i <= from THEN seq[i] ELSE seq[i + 1]]
    IN  [i \in 1..Len(seq) |->
            IF i <= to THEN rest[i]
            ELSE IF i = to + 1 THEN seq[from + 1]
            ELSE rest[i - 1]]
oInBounds(i) == i >= 0 /\ i < Len(DisplayOrder(oBefore))
oIsMoved(from, to) ==
    /\ oIsPermutation(rDraft)
    /\ DisplayOrder(rDraft) = oMoved(DisplayOrder(oBefore), from, to)

sSavedEarly == pc = "fetching" /\ landed.source = "local"
sSaved == landed.data.doc

\* C27: a save while the initial fetch is in flight sets the canonical value
\* and the cache to the saved value and sends nothing to the remote store;
\* when the fetch then returns a document, the canonical value and the cache
\* become the merged remote document, which is not the saved value; when
\* the fetch returns none, the saved value, read back from the cache, is
\* what init pushes, and it is the remote document when none was there.
C27_SaveDuringInitialFetch ==
    [][/\ (pc = "fetching" /\ last'.op \in {"save", "reset"} /\ last' # last) =>
              /\ settings' = last'.data.doc
              /\ loadFromLocalStorage(cache') = last'.data.doc
              /\ pending' = <<>>
              /\ remote' = remote
       /\ (sSavedEarly /\ last'.op = "fetchDoc") =>
              /\ settings' = mergeSettings(remote)
              /\ loadFromLocalStorage(cache') = settings'
              /\ settings' # sSaved
       /\ (sSavedEarly /\ last'.op \in {"fetchAbsent", "fetchFailed"}) =>
              /\ initLocal' = Some(sSaved)
              /\ settings' = sSaved
       /\ (pc = "pushing" /\ last'.op = "initPushOk" /\ remote = None) =>
              remote' = initLocal
      ]_vars

\* the draft was saved during the fetch, the fetch found no document and
\* the saved value is the remote document
C27_Witness ==
    /\ last.op = "initPushOk"
    /\ remote.some
    /\ remote.doc.contact.email = TypedEmail
    /\ firestoreAvailable
    /\ pending = <<>>


\* C28: between the provider's operations (start-up load, init's fetch
\* handling, a notification, setSettings, updateSettings, resetSettings),
\* loading the cache returns the canonical value: an absent or unparseable
\* entry goes with the defaults, and otherwise mergeSettings of the parsed
\* entry is the canonical value
C28_CacheLoadsToCanonical ==
    /\ loadFromLocalStorage(cache) = settings
    /\ cache.kind \in {"absent", "empty", "garbage"} =>
           settings = DEFAULT_SITE_SETTINGS
    /\ cache.kind = "json" =>
           mergeSettings(Some(JsonParse(cache))) = settings

C28_Witness ==
    /\ last.op = "update"
    /\ last.changed
    /\ cache.kind = "json"
    /\ settings # DEFAULT_SITE_SETTINGS
    /\ C28_CacheLoadsToCanonical

\* C26: once the provider's effect is cleaned up no listener is registered,
\* and no notification after it changes the canonical value or the cache,
\* whenever the cleanup happens: with init's fetch or push still in flight,
\* or after init
C26_TeardownLeavesNothingBehind ==
    [][~mounted' =>
          /\ ~subscribed'
          /\ (~mounted /\ last'.op \in {"notify", "notifyNull", "notifyError"}) =>
                 /\ settings' = settings
                 /\ cache' = cache
      ]_vars

====
